---- MODULE Spec2Model ----
(***************************************************************************)
(* A model of waxy, the Python binding of the taffy layout engine:         *)
(* the partial Style value with its field mask and merge operator          *)
(* (src/src/style.rs), the tree boundary that stores and returns styles    *)
(* (src/src/tree.rs) and the validating value constructors                 *)
(* (src/src/values.rs).                                                    *)
(***************************************************************************)
EXTENDS Integers, Sequences, FiniteSets, TLC

(***************************************************************************)
(* Bounds of the model.                                                    *)
(***************************************************************************)
\* Style objects the host program holds at once.
MaxStyles == 3
\* Style objects the host holds at once while it works with a tree.
MaxTreeStyles == 2
\* Nodes the tree holds at once.
MaxNodes == 1
\* Length, GridLine and GridSpan objects the host holds at once.
MaxMade == 2
\* Words in the message of a panic.
MaxMsgLen == 5
\* Keys the tree issues while the host adds, moves and removes nodes.
MaxKeys == 3
\* Children a node is given.
MaxChildren == 1
\* Invocations of the measure adapter in one layout pass.
MaxMeasures == 3

(***************************************************************************)
(* f32 values.  A finite float n/100 is Flt(n); the other IEEE-754 classes *)
(* are values of their own.                                                *)
(***************************************************************************)
Flt(n) == [k |-> "num", v |-> n]
NegZero == [k |-> "negzero", v |-> 0]
PosInf == [k |-> "inf", v |-> 1]
NegInf == [k |-> "inf", v |-> -1]
NaN == [k |-> "nan", v |-> 0]

(***************************************************************************)
(* Rust Option<T>.                                                         *)
(***************************************************************************)
None == <<>>
Some(x) == <<x>>

(***************************************************************************)
(* The engine's compact (tag, value) lengths, grid tracks and placements,  *)
(* as the style record stores them.                                        *)
(***************************************************************************)
TLength(x) == [tag |-> "Length", value |-> x]
TPercent(x) == [tag |-> "Percent", value |-> x]
TFraction(x) == [tag |-> "Fraction", value |-> x]
TAuto == [tag |-> "Auto", value |-> Flt(0)]
Track(lo, hi) == [min |-> lo, max |-> hi]
Single(tsf) == [component |-> "Single", track |-> tsf]
GPAuto == [kind |-> "Auto", n |-> 0]
GPLine(i) == [kind |-> "Line", n |-> i]
GPSpan(c) == [kind |-> "Span", n |-> c]
Line(s, e) == [start |-> s, end |-> e]

(***************************************************************************)
(* A u64 is the set of the positions of its one bits: | is union, & is     *)
(* intersection, 0 is the empty set.                                       *)
(***************************************************************************)
U64_BITS == 64
Bit(k) == {k}
Zero == {}
BitOr(a, b) == a \cup b
BitAnd(a, b) == b \cap a
U64_MAX == 0 .. (U64_BITS - 1)

\* The bit of each property in Style.set_fields (F_DISPLAY is F.DISPLAY).
F ==
    [ DISPLAY |-> Bit(0),
      BOX_SIZING |-> Bit(1),
      OVERFLOW_X |-> Bit(2),
      OVERFLOW_Y |-> Bit(3),
      SCROLLBAR_WIDTH |-> Bit(4),
      POSITION |-> Bit(5),
      INSET_LEFT |-> Bit(6),
      INSET_RIGHT |-> Bit(7),
      INSET_TOP |-> Bit(8),
      INSET_BOTTOM |-> Bit(9),
      SIZE_WIDTH |-> Bit(10),
      SIZE_HEIGHT |-> Bit(11),
      MIN_SIZE_WIDTH |-> Bit(12),
      MIN_SIZE_HEIGHT |-> Bit(13),
      MAX_SIZE_WIDTH |-> Bit(14),
      MAX_SIZE_HEIGHT |-> Bit(15),
      ASPECT_RATIO |-> Bit(16),
      MARGIN_LEFT |-> Bit(17),
      MARGIN_RIGHT |-> Bit(18),
      MARGIN_TOP |-> Bit(19),
      MARGIN_BOTTOM |-> Bit(20),
      PADDING_LEFT |-> Bit(21),
      PADDING_RIGHT |-> Bit(22),
      PADDING_TOP |-> Bit(23),
      PADDING_BOTTOM |-> Bit(24),
      BORDER_LEFT |-> Bit(25),
      BORDER_RIGHT |-> Bit(26),
      BORDER_TOP |-> Bit(27),
      BORDER_BOTTOM |-> Bit(28),
      ALIGN_ITEMS |-> Bit(29),
      ALIGN_SELF |-> Bit(30),
      JUSTIFY_ITEMS |-> Bit(31),
      JUSTIFY_SELF |-> Bit(32),
      ALIGN_CONTENT |-> Bit(33),
      JUSTIFY_CONTENT |-> Bit(34),
      GAP_WIDTH |-> Bit(35),
      GAP_HEIGHT |-> Bit(36),
      TEXT_ALIGN |-> Bit(37),
      FLEX_DIRECTION |-> Bit(38),
      FLEX_WRAP |-> Bit(39),
      FLEX_BASIS |-> Bit(40),
      FLEX_GROW |-> Bit(41),
      FLEX_SHRINK |-> Bit(42),
      GRID_TEMPLATE_ROWS |-> Bit(43),
      GRID_TEMPLATE_COLUMNS |-> Bit(44),
      GRID_AUTO_ROWS |-> Bit(45),
      GRID_AUTO_COLUMNS |-> Bit(46),
      GRID_AUTO_FLOW |-> Bit(47),
      GRID_ROW |-> Bit(48),
      GRID_COLUMN |-> Bit(49) ]

\* taffy::Style::DEFAULT, the engine's default record.
DEFAULT ==
    [ display |-> "Flex",
      box_sizing |-> "BorderBox",
      overflow_x |-> "Visible",
      overflow_y |-> "Visible",
      scrollbar_width |-> Flt(0),
      position |-> "Relative",
      inset_left |-> TAuto,
      inset_right |-> TAuto,
      inset_top |-> TAuto,
      inset_bottom |-> TAuto,
      size_width |-> TAuto,
      size_height |-> TAuto,
      min_size_width |-> TAuto,
      min_size_height |-> TAuto,
      max_size_width |-> TAuto,
      max_size_height |-> TAuto,
      aspect_ratio |-> None,
      margin_left |-> TLength(Flt(0)),
      margin_right |-> TLength(Flt(0)),
      margin_top |-> TLength(Flt(0)),
      margin_bottom |-> TLength(Flt(0)),
      padding_left |-> TLength(Flt(0)),
      padding_right |-> TLength(Flt(0)),
      padding_top |-> TLength(Flt(0)),
      padding_bottom |-> TLength(Flt(0)),
      border_left |-> TLength(Flt(0)),
      border_right |-> TLength(Flt(0)),
      border_top |-> TLength(Flt(0)),
      border_bottom |-> TLength(Flt(0)),
      align_items |-> None,
      align_self |-> None,
      justify_items |-> None,
      justify_self |-> None,
      align_content |-> None,
      justify_content |-> None,
      gap_width |-> TLength(Flt(0)),
      gap_height |-> TLength(Flt(0)),
      text_align |-> "Auto",
      flex_direction |-> "Row",
      flex_wrap |-> "NoWrap",
      flex_basis |-> TAuto,
      flex_grow |-> Flt(0),
      flex_shrink |-> Flt(100),
      grid_template_rows |-> <<>>,
      grid_template_columns |-> <<>>,
      grid_auto_rows |-> <<>>,
      grid_auto_columns |-> <<>>,
      grid_auto_flow |-> "Row",
      grid_row |-> Line(GPAuto, GPAuto),
      grid_column |-> Line(GPAuto, GPAuto) ]

\* One non-default value per property, different for every two properties of
\* one type: what the host program writes besides the default.
SAMPLE ==
    [ display |-> "Grid",
      box_sizing |-> "ContentBox",
      overflow_x |-> "Hidden",
      overflow_y |-> "Scroll",
      scrollbar_width |-> Flt(84),
      position |-> "Absolute",
      inset_left |-> TLength(Flt(56)),
      inset_right |-> TLength(Flt(57)),
      inset_top |-> TLength(Flt(58)),
      inset_bottom |-> TLength(Flt(59)),
      size_width |-> TPercent(Flt(10)),
      size_height |-> TPercent(Flt(11)),
      min_size_width |-> TPercent(Flt(12)),
      min_size_height |-> TPercent(Flt(13)),
      max_size_width |-> TPercent(Flt(14)),
      max_size_height |-> TPercent(Flt(15)),
      aspect_ratio |-> Some(Flt(150)),
      margin_left |-> TAuto,
      margin_right |-> TLength(Flt(318)),
      margin_top |-> TLength(Flt(319)),
      margin_bottom |-> TLength(Flt(320)),
      padding_left |-> TLength(Flt(421)),
      padding_right |-> TLength(Flt(422)),
      padding_top |-> TLength(Flt(423)),
      padding_bottom |-> TLength(Flt(424)),
      border_left |-> TLength(Flt(125)),
      border_right |-> TLength(Flt(126)),
      border_top |-> TLength(Flt(127)),
      border_bottom |-> TLength(Flt(128)),
      align_items |-> Some("Center"),
      align_self |-> Some("End"),
      justify_items |-> Some("Start"),
      justify_self |-> Some("Stretch"),
      align_content |-> Some("SpaceBetween"),
      justify_content |-> Some("SpaceAround"),
      gap_width |-> TPercent(Flt(35)),
      gap_height |-> TPercent(Flt(36)),
      text_align |-> "LegacyCenter",
      flex_direction |-> "Column",
      flex_wrap |-> "Wrap",
      flex_basis |-> TPercent(Flt(40)),
      flex_grow |-> Flt(241),
      flex_shrink |-> Flt(42),
      grid_template_rows |-> <<Single(Track(TLength(Flt(1043)), TLength(Flt(1043))))>>,
      grid_template_columns |-> <<Single(Track(TLength(Flt(1044)), TLength(Flt(1044))))>>,
      grid_auto_rows |-> <<Track(TAuto, TFraction(Flt(145)))>>,
      grid_auto_columns |-> <<Track(TAuto, TFraction(Flt(146)))>>,
      grid_auto_flow |-> "Column",
      grid_row |-> Line(GPLine(48), GPSpan(2)),
      grid_column |-> Line(GPLine(49), GPSpan(2)) ]

Keys == DOMAIN DEFAULT

\* One entry per set_field! / set_opt_field! line of Style::new, in order.
CTOR ==
    << [key |-> "display", flag |-> F.DISPLAY, opt |-> FALSE],
       [key |-> "box_sizing", flag |-> F.BOX_SIZING, opt |-> FALSE],
       [key |-> "overflow_x", flag |-> F.OVERFLOW_X, opt |-> FALSE],
       [key |-> "overflow_y", flag |-> F.OVERFLOW_Y, opt |-> FALSE],
       [key |-> "scrollbar_width", flag |-> F.SCROLLBAR_WIDTH, opt |-> FALSE],
       [key |-> "position", flag |-> F.POSITION, opt |-> FALSE],
       [key |-> "inset_left", flag |-> F.INSET_LEFT, opt |-> FALSE],
       [key |-> "inset_right", flag |-> F.INSET_RIGHT, opt |-> FALSE],
       [key |-> "inset_top", flag |-> F.INSET_TOP, opt |-> FALSE],
       [key |-> "inset_bottom", flag |-> F.INSET_BOTTOM, opt |-> FALSE],
       [key |-> "size_width", flag |-> F.SIZE_WIDTH, opt |-> FALSE],
       [key |-> "size_height", flag |-> F.SIZE_HEIGHT, opt |-> FALSE],
       [key |-> "min_size_width", flag |-> F.MIN_SIZE_WIDTH, opt |-> FALSE],
       [key |-> "min_size_height", flag |-> F.MIN_SIZE_HEIGHT, opt |-> FALSE],
       [key |-> "max_size_width", flag |-> F.MAX_SIZE_WIDTH, opt |-> FALSE],
       [key |-> "max_size_height", flag |-> F.MAX_SIZE_HEIGHT, opt |-> FALSE],
       [key |-> "aspect_ratio", flag |-> F.ASPECT_RATIO, opt |-> TRUE],
       [key |-> "margin_left", flag |-> F.MARGIN_LEFT, opt |-> FALSE],
       [key |-> "margin_right", flag |-> F.MARGIN_RIGHT, opt |-> FALSE],
       [key |-> "margin_top", flag |-> F.MARGIN_TOP, opt |-> FALSE],
       [key |-> "margin_bottom", flag |-> F.MARGIN_BOTTOM, opt |-> FALSE],
       [key |-> "padding_left", flag |-> F.PADDING_LEFT, opt |-> FALSE],
       [key |-> "padding_right", flag |-> F.PADDING_RIGHT, opt |-> FALSE],
       [key |-> "padding_top", flag |-> F.PADDING_TOP, opt |-> FALSE],
       [key |-> "padding_bottom", flag |-> F.PADDING_BOTTOM, opt |-> FALSE],
       [key |-> "border_left", flag |-> F.BORDER_LEFT, opt |-> FALSE],
       [key |-> "border_right", flag |-> F.BORDER_RIGHT, opt |-> FALSE],
       [key |-> "border_top", flag |-> F.BORDER_TOP, opt |-> FALSE],
       [key |-> "border_bottom", flag |-> F.BORDER_BOTTOM, opt |-> FALSE],
       [key |-> "align_items", flag |-> F.ALIGN_ITEMS, opt |-> TRUE],
       [key |-> "align_self", flag |-> F.ALIGN_SELF, opt |-> TRUE],
       [key |-> "justify_items", flag |-> F.JUSTIFY_ITEMS, opt |-> TRUE],
       [key |-> "justify_self", flag |-> F.JUSTIFY_SELF, opt |-> TRUE],
       [key |-> "align_content", flag |-> F.ALIGN_CONTENT, opt |-> TRUE],
       [key |-> "justify_content", flag |-> F.JUSTIFY_CONTENT, opt |-> TRUE],
       [key |-> "gap_width", flag |-> F.GAP_WIDTH, opt |-> FALSE],
       [key |-> "gap_height", flag |-> F.GAP_HEIGHT, opt |-> FALSE],
       [key |-> "text_align", flag |-> F.TEXT_ALIGN, opt |-> FALSE],
       [key |-> "flex_direction", flag |-> F.FLEX_DIRECTION, opt |-> FALSE],
       [key |-> "flex_wrap", flag |-> F.FLEX_WRAP, opt |-> FALSE],
       [key |-> "flex_basis", flag |-> F.FLEX_BASIS, opt |-> FALSE],
       [key |-> "flex_grow", flag |-> F.FLEX_GROW, opt |-> FALSE],
       [key |-> "flex_shrink", flag |-> F.FLEX_SHRINK, opt |-> FALSE],
       [key |-> "grid_template_rows", flag |-> F.GRID_TEMPLATE_ROWS, opt |-> FALSE],
       [key |-> "grid_template_columns", flag |-> F.GRID_TEMPLATE_COLUMNS, opt |-> FALSE],
       [key |-> "grid_auto_rows", flag |-> F.GRID_AUTO_ROWS, opt |-> FALSE],
       [key |-> "grid_auto_columns", flag |-> F.GRID_AUTO_COLUMNS, opt |-> FALSE],
       [key |-> "grid_auto_flow", flag |-> F.GRID_AUTO_FLOW, opt |-> FALSE],
       [key |-> "grid_row", flag |-> F.GRID_ROW, opt |-> FALSE],
       [key |-> "grid_column", flag |-> F.GRID_COLUMN, opt |-> FALSE] >>

\* The flag each setter ORs into set_fields; the setter of key k writes inner.k.
SETTER ==
    [ display |-> F.DISPLAY,
      box_sizing |-> F.BOX_SIZING,
      overflow_x |-> F.OVERFLOW_X,
      overflow_y |-> F.OVERFLOW_Y,
      scrollbar_width |-> F.SCROLLBAR_WIDTH,
      position |-> F.POSITION,
      inset_left |-> F.INSET_LEFT,
      inset_right |-> F.INSET_RIGHT,
      inset_top |-> F.INSET_TOP,
      inset_bottom |-> F.INSET_BOTTOM,
      size_width |-> F.SIZE_WIDTH,
      size_height |-> F.SIZE_HEIGHT,
      min_size_width |-> F.MIN_SIZE_WIDTH,
      min_size_height |-> F.MIN_SIZE_HEIGHT,
      max_size_width |-> F.MAX_SIZE_WIDTH,
      max_size_height |-> F.MAX_SIZE_HEIGHT,
      aspect_ratio |-> F.ASPECT_RATIO,
      margin_left |-> F.MARGIN_LEFT,
      margin_right |-> F.MARGIN_RIGHT,
      margin_top |-> F.MARGIN_TOP,
      margin_bottom |-> F.MARGIN_BOTTOM,
      padding_left |-> F.PADDING_LEFT,
      padding_right |-> F.PADDING_RIGHT,
      padding_top |-> F.PADDING_TOP,
      padding_bottom |-> F.PADDING_BOTTOM,
      border_left |-> F.BORDER_LEFT,
      border_right |-> F.BORDER_RIGHT,
      border_top |-> F.BORDER_TOP,
      border_bottom |-> F.BORDER_BOTTOM,
      align_items |-> F.ALIGN_ITEMS,
      align_self |-> F.ALIGN_SELF,
      justify_items |-> F.JUSTIFY_ITEMS,
      justify_self |-> F.JUSTIFY_SELF,
      align_content |-> F.ALIGN_CONTENT,
      justify_content |-> F.JUSTIFY_CONTENT,
      gap_width |-> F.GAP_WIDTH,
      gap_height |-> F.GAP_HEIGHT,
      text_align |-> F.TEXT_ALIGN,
      flex_direction |-> F.FLEX_DIRECTION,
      flex_wrap |-> F.FLEX_WRAP,
      flex_basis |-> F.FLEX_BASIS,
      flex_grow |-> F.FLEX_GROW,
      flex_shrink |-> F.FLEX_SHRINK,
      grid_template_rows |-> F.GRID_TEMPLATE_ROWS,
      grid_template_columns |-> F.GRID_TEMPLATE_COLUMNS,
      grid_auto_rows |-> F.GRID_AUTO_ROWS,
      grid_auto_columns |-> F.GRID_AUTO_COLUMNS,
      grid_auto_flow |-> F.GRID_AUTO_FLOW,
      grid_row |-> F.GRID_ROW,
      grid_column |-> F.GRID_COLUMN ]

(***************************************************************************)
(* Python values handed to the constructor: None, an object of the         *)
(* property's type, or an object of another type.                          *)
(***************************************************************************)
PyNone == [kind |-> "None", v |-> None]
Py(x) == [kind |-> "Obj", v |-> Some(x)]
PyOther == [kind |-> "Other", v |-> None]

\* ---- Style ------------------------------------------------------------

\* The entries of CTOR whose keyword is given, and those among them whose
\* value the entry does not take: None for a set_field! property, or an
\* object that does not extract to the property's type.
CtorGiven(kwargs) == {i \in 1 .. Len(CTOR) : CTOR[i].key \in DOMAIN kwargs}
CtorRejects(kwargs) ==
    {i \in CtorGiven(kwargs) :
        \/ kwargs[CTOR[i].key].kind = "None" /\ ~CTOR[i].opt
        \/ kwargs[CTOR[i].key].kind = "Other"}

\* The entry of each keyword.
CtorIndex == [k \in Keys |-> CHOOSE j \in 1 .. Len(CTOR) : CTOR[j].key = k]

\* What the body of entry c assigns for the Python value py_val.
CtorValue(c, py_val) ==
    IF ~c.opt THEN py_val.v[1]
    ELSE IF py_val.kind = "None" THEN None ELSE Some(py_val.v[1])

\* Style(**kwargs): the entries run in order and the first rejected one
\* returns its TypeError; otherwise every given entry has assigned its field
\* of the default record and ORed its flag into set_fields.  For None the
\* entry raises its own message, which begins with the keyword; for an object
\* that does not extract, the error of the extraction is passed on as it is,
\* and the extraction is handed the value alone.
Style_new(kwargs) ==
    IF CtorRejects(kwargs) # {}
    THEN LET i == CHOOSE j \in CtorRejects(kwargs) :
                      \A h \in CtorRejects(kwargs) : j <= h
         IN  [ok |-> FALSE, err |-> "TypeError",
              msg |-> IF kwargs[CTOR[i].key].kind = "None"
                      THEN <<CTOR[i].key, "must", "not", "be", "None">>
                      ELSE <<"object", "cannot", "be", "converted">>]
    ELSE [ok |-> TRUE,
          style |->
            [inner |->
               [k \in Keys |->
                  IF k \in DOMAIN kwargs
                  THEN CtorValue(CTOR[CtorIndex[k]], kwargs[k])
                  ELSE DEFAULT[k]],
             set_fields |->
               UNION ({Zero} \cup {CTOR[i].flag : i \in CtorGiven(kwargs)})]]

\* Faulty setters, which the properties of the mask must tell from Style_set.
\* One writes the value and leaves the mask alone.
Style_set_KeepsMask(self, key, value) ==
    [self EXCEPT !.inner[key] = value]

\* One takes a write of the default value for no write at all.
Style_set_SkipsDefault(self, key, value) ==
    IF value = DEFAULT[key]
    THEN self
    ELSE [self EXCEPT !.inner[key] = value,
                      !.set_fields = BitOr(@, SETTER[key])]

\* One takes a write of the default value for a reset of the property.
Style_set_ResetsOnDefault(self, key, value) ==
    IF value = DEFAULT[key]
    THEN [self EXCEPT !.inner[key] = value,
                      !.set_fields = @ \ SETTER[key]]
    ELSE [self EXCEPT !.inner[key] = value,
                      !.set_fields = BitOr(@, SETTER[key])]

\* The setter of property key: style.key = value.
Style_set(self, key, value) ==
    [self EXCEPT !.inner[key] = value,
                 !.set_fields = BitOr(@, SETTER[key])]

\* A faulty assignment that marks the property as set before the value is
\* extracted.
Style_setattr_FlagsFirst(self, key, py_val) ==
    IF \/ py_val.kind = "Other"
       \/ py_val.kind = "None" /\ ~CTOR[CtorIndex[key]].opt
    THEN [ok |-> FALSE, err |-> "TypeError",
          style |-> [self EXCEPT !.set_fields = BitOr(@, SETTER[key])]]
    ELSE [ok |-> TRUE, err |-> "none",
          style |-> Style_set(self, key, CtorValue(CTOR[CtorIndex[key]], py_val))]

\* style.key = py_val, as the host writes it: the value is extracted to the
\* type of the setter's parameter before the setter runs, and a value that
\* does not extract raises TypeError with the Style as it was.
Style_setattr(self, key, py_val) ==
    IF \/ py_val.kind = "Other"
       \/ py_val.kind = "None" /\ ~CTOR[CtorIndex[key]].opt
    THEN [ok |-> FALSE, err |-> "TypeError", style |-> self]
    ELSE [ok |-> TRUE, err |-> "none",
          style |-> Style_set(self, key, CtorValue(CTOR[CtorIndex[key]], py_val))]

\* The fields of self | other, in the order the merge tests them: the flag
\* tested in the right operand's mask and the field copied from it.
OrFields ==
    [ display |-> F.DISPLAY,
      box_sizing |-> F.BOX_SIZING,
      overflow_x |-> F.OVERFLOW_X,
      overflow_y |-> F.OVERFLOW_Y,
      scrollbar_width |-> F.SCROLLBAR_WIDTH,
      position |-> F.POSITION,
      inset_left |-> F.INSET_LEFT,
      inset_right |-> F.INSET_RIGHT,
      inset_top |-> F.INSET_TOP,
      inset_bottom |-> F.INSET_BOTTOM,
      size_width |-> F.SIZE_WIDTH,
      size_height |-> F.SIZE_HEIGHT,
      min_size_width |-> F.MIN_SIZE_WIDTH,
      min_size_height |-> F.MIN_SIZE_HEIGHT,
      max_size_width |-> F.MAX_SIZE_WIDTH,
      max_size_height |-> F.MAX_SIZE_HEIGHT,
      aspect_ratio |-> F.ASPECT_RATIO,
      margin_left |-> F.MARGIN_LEFT,
      margin_right |-> F.MARGIN_RIGHT,
      margin_top |-> F.MARGIN_TOP,
      margin_bottom |-> F.MARGIN_BOTTOM,
      padding_left |-> F.PADDING_LEFT,
      padding_right |-> F.PADDING_RIGHT,
      padding_top |-> F.PADDING_TOP,
      padding_bottom |-> F.PADDING_BOTTOM,
      border_left |-> F.BORDER_LEFT,
      border_right |-> F.BORDER_RIGHT,
      border_top |-> F.BORDER_TOP,
      border_bottom |-> F.BORDER_BOTTOM,
      align_items |-> F.ALIGN_ITEMS,
      align_self |-> F.ALIGN_SELF,
      justify_items |-> F.JUSTIFY_ITEMS,
      justify_self |-> F.JUSTIFY_SELF,
      align_content |-> F.ALIGN_CONTENT,
      justify_content |-> F.JUSTIFY_CONTENT,
      gap_width |-> F.GAP_WIDTH,
      gap_height |-> F.GAP_HEIGHT,
      text_align |-> F.TEXT_ALIGN,
      flex_direction |-> F.FLEX_DIRECTION,
      flex_wrap |-> F.FLEX_WRAP,
      flex_basis |-> F.FLEX_BASIS,
      flex_grow |-> F.FLEX_GROW,
      flex_shrink |-> F.FLEX_SHRINK,
      grid_template_rows |-> F.GRID_TEMPLATE_ROWS,
      grid_template_columns |-> F.GRID_TEMPLATE_COLUMNS,
      grid_auto_rows |-> F.GRID_AUTO_ROWS,
      grid_auto_columns |-> F.GRID_AUTO_COLUMNS,
      grid_auto_flow |-> F.GRID_AUTO_FLOW,
      grid_row |-> F.GRID_ROW,
      grid_column |-> F.GRID_COLUMN ]

\* Faulty merges, which the properties of the merge must tell from Style_or.
\* One takes other's value wherever it differs from the default, whatever
\* other's mask says.
Style_or_ByValue(self, other) ==
    [inner |-> [k \in Keys |->
                  IF other.inner[k] # DEFAULT[k]
                  THEN other.inner[k]
                  ELSE self.inner[k]],
     set_fields |-> BitOr(self.set_fields, other.set_fields)]

\* One assigns other's mask to the result instead of or-ing it in.
Style_or_TakesMask(self, other) ==
    LET rhs == other.set_fields
    IN  [inner |-> [k \in Keys |->
                      IF BitAnd(rhs, SETTER[k]) # Zero
                      THEN other.inner[k]
                      ELSE self.inner[k]],
         set_fields |-> rhs]

\* One copies the fields and leaves the result with self's mask.
Style_or_KeepsMask(self, other) ==
    LET rhs == other.set_fields
    IN  [inner |-> [k \in Keys |->
                      IF BitAnd(rhs, SETTER[k]) # Zero
                      THEN other.inner[k]
                      ELSE self.inner[k]],
         set_fields |-> self.set_fields]

\* One takes an absent value in other for a property other never mentioned.
Style_or_SkipsAbsent(self, other) ==
    LET rhs == other.set_fields
    IN  [inner |-> [k \in Keys |->
                      IF BitAnd(rhs, OrFields[k]) # Zero /\ other.inner[k] # None
                      THEN other.inner[k]
                      ELSE self.inner[k]],
         set_fields |-> BitOr(self.set_fields, rhs)]

\* One copies every field of other, whatever other's mask says.
Style_or_TakesAll(self, other) ==
    [inner |-> other.inner,
     set_fields |-> BitOr(self.set_fields, other.set_fields)]

\* self | other: a clone of self in which every field whose flag is set in
\* other's mask is overwritten with other's value, and whose mask is or-ed
\* with other's.
Style_or(self, other) ==
    LET rhs == other.set_fields
    IN  [inner |-> [k \in Keys |->
                      IF BitAnd(rhs, OrFields[k]) # Zero
                      THEN other.inner[k]
                      ELSE self.inner[k]],
         set_fields |-> BitOr(self.set_fields, rhs)]


\* Style::to_taffy: a clone of the engine record.
to_taffy(self) == self.inner

\* A faulty conversion that marks no field as set.
Style_from_NoFlags(s) == [inner |-> s, set_fields |-> Zero]

\* impl From<&taffy::Style> for Style: every bit of the mask is set.
Style_from(s) == [inner |-> s, set_fields |-> U64_MAX]

\* ---- Value constructors (values.rs) ----------------------------------

\* a <= b on f32: false when either side is NaN; -0.0 equals 0.0.
Fin(x) == IF x.k = "negzero" THEN 0 ELSE x.v
F32Le(a, b) ==
    /\ a.k # "nan"
    /\ b.k # "nan"
    /\ \/ a.k = "inf" /\ a.v < 0
       \/ b.k = "inf" /\ b.v > 0
       \/ a.k # "inf" /\ b.k # "inf" /\ Fin(a) <= Fin(b)

\* (lo..=hi).contains(&value)
RangeContains(lo, hi, value) == F32Le(lo, value) /\ F32Le(value, hi)

\* A faulty range test that rejects what compares below 0.0 or above 1.0, and
\* so lets NaN through.
Percent_new_ByComparison(value) ==
    IF \/ F32Le(value, Flt(0)) /\ ~F32Le(Flt(0), value)
       \/ F32Le(Flt(100), value) /\ ~F32Le(value, Flt(100))
    THEN [ok |-> FALSE, err |-> "InvalidPercent"]
    ELSE [ok |-> TRUE, obj |-> [type |-> "Percent", value |-> value]]

\* Percent(value)
Percent_new(value) ==
    IF ~RangeContains(Flt(0), Flt(100), value)
    THEN [ok |-> FALSE, err |-> "InvalidPercent"]
    ELSE [ok |-> TRUE, obj |-> [type |-> "Percent", value |-> value]]

\* Length(value): every f32 is taken as it is.
Length_new(value) == [ok |-> TRUE, obj |-> [type |-> "Length", value |-> value]]

\* GridLine(index): every i16 is taken as it is.
GridLine_new(index) == [ok |-> TRUE, obj |-> [type |-> "GridLine", index |-> index]]

\* GridSpan(count): every u16 is taken as it is.
GridSpan_new(count) == [ok |-> TRUE, obj |-> [type |-> "GridSpan", count |-> count]]

\* Dimension.percent(value), and the same for LengthPercentage.percent,
\* LengthPercentageAuto.percent and the helper percent(value): every f32 is
\* taken as it is and handed to the engine's constructor, which keeps it.
Dimension_percent(value) ==
    [ok |-> TRUE, obj |-> [type |-> "Dimension", inner |-> TPercent(value)]]

\* ---- Grid tracks (values.rs) ------------------------------------------

\* GridTrackMinInput::to_taffy_min, on an object Minmax took as its min.
to_taffy_min(x) ==
    CASE x.type = "Length" -> TLength(x.value)
      [] x.type = "Percent" -> TPercent(x.value)
      [] x.type = "Auto" -> TAuto
      [] x.type = "MinContent" -> [tag |-> "MinContent", value |-> Flt(0)]
      [] x.type = "MaxContent" -> [tag |-> "MaxContent", value |-> Flt(0)]

\* GridTrackMaxInput::to_taffy_max, with FitContent::to_taffy_max for a
\* FitContent, on an object Minmax took as its max.
to_taffy_max(x) ==
    CASE x.type = "Length" -> TLength(x.value)
      [] x.type = "Percent" -> TPercent(x.value)
      [] x.type = "Auto" -> TAuto
      [] x.type = "MinContent" -> [tag |-> "MinContent", value |-> Flt(0)]
      [] x.type = "MaxContent" -> [tag |-> "MaxContent", value |-> Flt(0)]
      [] x.type = "Fraction" -> TFraction(x.value)
      [] x.type = "FitContent" ->
            IF x.limit.type = "Length"
            THEN [tag |-> "FitContentPx", value |-> x.limit.value]
            ELSE [tag |-> "FitContentPercent", value |-> x.limit.value]

\* GridTrackInput::to_taffy, with Minmax::to_taffy_track for a Minmax.
GridTrackInput_to_taffy(x) ==
    CASE x.type = "Length" -> Track(TLength(x.value), TLength(x.value))
      [] x.type = "Percent" -> Track(TPercent(x.value), TPercent(x.value))
      [] x.type = "Auto" -> Track(TAuto, TAuto)
      [] x.type = "MinContent" ->
            Track([tag |-> "MinContent", value |-> Flt(0)],
                  [tag |-> "MinContent", value |-> Flt(0)])
      [] x.type = "MaxContent" ->
            Track([tag |-> "MaxContent", value |-> Flt(0)],
                  [tag |-> "MaxContent", value |-> Flt(0)])
      [] x.type = "Fraction" -> Track(TAuto, TFraction(x.value))
      [] x.type = "Minmax" -> Track(to_taffy_min(x.min), to_taffy_max(x.max))
      [] x.type = "FitContent" -> Track(TAuto, to_taffy_max(x))

\* grid_track_min_to_py
grid_track_min_to_py(min) ==
    CASE min.tag = "Length" -> [type |-> "Length", value |-> min.value]
      [] min.tag = "Percent" -> [type |-> "Percent", value |-> min.value]
      [] min.tag = "Auto" -> [type |-> "Auto"]
      [] min.tag = "MinContent" -> [type |-> "MinContent"]
      [] min.tag = "MaxContent" -> [type |-> "MaxContent"]
      [] OTHER -> [type |-> "Auto"]

\* grid_track_max_to_py
grid_track_max_to_py(max) ==
    CASE max.tag = "Length" -> [type |-> "Length", value |-> max.value]
      [] max.tag = "Percent" -> [type |-> "Percent", value |-> max.value]
      [] max.tag = "Auto" -> [type |-> "Auto"]
      [] max.tag = "MinContent" -> [type |-> "MinContent"]
      [] max.tag = "MaxContent" -> [type |-> "MaxContent"]
      [] max.tag = "Fraction" -> [type |-> "Fraction", value |-> max.value]
      [] max.tag = "FitContentPx" ->
            [type |-> "FitContent",
             limit |-> [type |-> "Length", value |-> max.value]]
      [] max.tag = "FitContentPercent" ->
            [type |-> "FitContent",
             limit |-> [type |-> "Percent", value |-> max.value]]
      [] OTHER -> [type |-> "Auto"]

\* A faulty conversion that compares the two payloads as f32 numbers and not
\* by their bits: -0.0 equals 0.0 and NaN equals nothing.
grid_track_to_py_ByNumber(tsf) ==
    LET min_raw == tsf.min
        max_raw == tsf.max
        same == F32Le(min_raw.value, max_raw.value) /\ F32Le(max_raw.value, min_raw.value)
    IN  CASE min_raw.tag = "Length" /\ max_raw.tag = "Length" /\ same ->
                [type |-> "Length", value |-> min_raw.value]
          [] min_raw.tag = "Percent" /\ max_raw.tag = "Percent" /\ same ->
                [type |-> "Percent", value |-> min_raw.value]
          [] min_raw.tag = "Auto" /\ max_raw.tag = "Auto" -> [type |-> "Auto"]
          [] min_raw.tag = "MinContent" /\ max_raw.tag = "MinContent" ->
                [type |-> "MinContent"]
          [] min_raw.tag = "MaxContent" /\ max_raw.tag = "MaxContent" ->
                [type |-> "MaxContent"]
          [] min_raw.tag = "Auto" /\ max_raw.tag = "Fraction" ->
                [type |-> "Fraction", value |-> max_raw.value]
          [] min_raw.tag = "Auto" /\ max_raw.tag = "FitContentPx" ->
                [type |-> "FitContent",
                 limit |-> [type |-> "Length", value |-> max_raw.value]]
          [] min_raw.tag = "Auto" /\ max_raw.tag = "FitContentPercent" ->
                [type |-> "FitContent",
                 limit |-> [type |-> "Percent", value |-> max_raw.value]]
          [] OTHER ->
                [type |-> "Minmax",
                 min |-> grid_track_min_to_py(tsf.min),
                 max |-> grid_track_max_to_py(tsf.max)]

\* A faulty conversion that recognises no shorthand.
grid_track_to_py_NoShorthand(tsf) ==
    [type |-> "Minmax",
     min |-> grid_track_min_to_py(tsf.min),
     max |-> grid_track_max_to_py(tsf.max)]

\* grid_track_to_py: the arms of the match in their order, the two payloads
\* compared by their bits.
grid_track_to_py(tsf) ==
    LET min_raw == tsf.min
        max_raw == tsf.max
    IN  CASE min_raw.tag = "Length" /\ max_raw.tag = "Length"
               /\ min_raw.value = max_raw.value ->
                [type |-> "Length", value |-> min_raw.value]
          [] min_raw.tag = "Percent" /\ max_raw.tag = "Percent"
               /\ min_raw.value = max_raw.value ->
                [type |-> "Percent", value |-> min_raw.value]
          [] min_raw.tag = "Auto" /\ max_raw.tag = "Auto" -> [type |-> "Auto"]
          [] min_raw.tag = "MinContent" /\ max_raw.tag = "MinContent" ->
                [type |-> "MinContent"]
          [] min_raw.tag = "MaxContent" /\ max_raw.tag = "MaxContent" ->
                [type |-> "MaxContent"]
          [] min_raw.tag = "Auto" /\ max_raw.tag = "Fraction" ->
                [type |-> "Fraction", value |-> max_raw.value]
          [] min_raw.tag = "Auto" /\ max_raw.tag = "FitContentPx" ->
                [type |-> "FitContent",
                 limit |-> [type |-> "Length", value |-> max_raw.value]]
          [] min_raw.tag = "Auto" /\ max_raw.tag = "FitContentPercent" ->
                [type |-> "FitContent",
                 limit |-> [type |-> "Percent", value |-> max_raw.value]]
          [] OTHER ->
                [type |-> "Minmax",
                 min |-> grid_track_min_to_py(tsf.min),
                 max |-> grid_track_max_to_py(tsf.max)]

\* ---- Errors and panics (errors.rs) -----------------------------------

\* A string is the sequence of its words; haystack.contains(needle).
Contains(haystack, needle) ==
    \E i \in 0 .. (Len(haystack) - Len(needle)) :
        SubSeq(haystack, i + 1, i + Len(needle)) = needle

SLOTMAP_KEY == <<"invalid", "SlotMap", "key", "used">>
SPARSE_KEY == <<"invalid", "SparseSecondaryMap", "key", "used">>

\* The exception classes and their base classes, as create_exception! and
\* register set them.
BaseClasses ==
    [ WaxyException |-> {"Exception"},
      TaffyException |-> {"WaxyException"},
      ChildIndexOutOfBounds |-> {"TaffyException"},
      InvalidParentNode |-> {"TaffyException"},
      InvalidChildNode |-> {"TaffyException"},
      InvalidInputNode |-> {"TaffyException"},
      InvalidNodeId |-> {"TaffyException", "KeyError"},
      InvalidPercent |-> {"WaxyException", "ValueError"},
      InvalidLength |-> {"WaxyException", "ValueError"},
      InvalidGridLine |-> {"WaxyException", "ValueError"},
      InvalidGridSpan |-> {"WaxyException", "ValueError"} ]

\* isinstance: class is base or derives from it, in at most three steps.
IsA(class, base) ==
    LET up(cs) == cs \cup UNION {BaseClasses[c] : c \in cs \cap DOMAIN BaseClasses}
    IN  base \in up(up(up({class})))

PyErr(kind, msg) == [kind |-> kind, msg |-> msg]
Ok(val) == [ok |-> TRUE, val |-> val]
Err(err) == [ok |-> FALSE, err |-> err]

\* What a call into the engine ends in: a return value, an Err(TaffyError)
\* or a panic with a payload.
Ret(val) == [kind |-> "ok", val |-> val]
Fail(err) == [kind |-> "err", err |-> err]
Panic(payload) == [kind |-> "panic", payload |-> payload]

\* Panic payloads: a &str, a String or a value of another type.
StrPayload(msg) == [type |-> "str", msg |-> msg]
StringPayload(msg) == [type |-> "String", msg |-> msg]
OtherPayload == [type |-> "other", msg |-> <<>>]

taffy_error_to_py(err) ==
    IF err.variant = "ChildIndexOutOfBounds"
    THEN PyErr("ChildIndexOutOfBounds",
               <<"Child index", ToString(err.child_index), "out of bounds (child count:",
                 ToString(err.child_count), ")">>)
    ELSE IF err.variant = "InvalidParentNode"
    THEN PyErr("InvalidParentNode", <<"Invalid parent node:", ToString(err.node)>>)
    ELSE IF err.variant = "InvalidChildNode"
    THEN PyErr("InvalidChildNode", <<"Invalid child node:", ToString(err.node)>>)
    ELSE PyErr("InvalidInputNode", <<"Invalid input node:", ToString(err.node)>>)

panic_message(panic) ==
    IF panic.type = "str" THEN panic.msg
    ELSE IF panic.type = "String" THEN panic.msg
    ELSE <<"unknown", "panic">>

\* A faulty test that knows the message of one of the two key maps only.
is_slotmap_panic_OneMap(panic) ==
    Contains(panic_message(panic), SLOTMAP_KEY)

is_slotmap_panic(panic) ==
    LET msg == panic_message(panic)
    IN  Contains(msg, SLOTMAP_KEY) \/ Contains(msg, SPARSE_KEY)

panic_to_py_err(panic, node_msg) ==
    IF is_slotmap_panic(panic)
    THEN PyErr("InvalidNodeId", node_msg)
    ELSE PyErr("TaffyException", <<"unexpected", "taffy", "panic:">> \o panic_message(panic))

\* The closure f is given by what running it ends in.
catch_node_panic(node, f) ==
    IF f.kind = "panic"
    THEN Err(panic_to_py_err(f.payload,
                <<"node", "NodeId(" \o ToString(node) \o ")",
                  "is not present in the tree (was it removed?)">>))
    ELSE Ok(f)

catch_panic(f) ==
    IF f.kind = "panic"
    THEN Err(panic_to_py_err(f.payload,
                <<"a node ID is not present in the tree (was it removed?)">>))
    ELSE Ok(f)

\* result?.map_err(taffy_error_to_py), for a result of catch_panic or
\* catch_node_panic over a call that returns a TaffyResult.
MapErr(caught) ==
    IF ~caught.ok THEN caught
    ELSE IF caught.val.kind = "err" THEN Err(taffy_error_to_py(caught.val.err))
    ELSE Ok(caught.val.val)

\* ---- The host program's state -----------------------------------------

VARIABLES
    prop,      \* the property the host program addresses by name
    styles,    \* the Style objects of the host, by identity; Absent when unallocated
    nodes,     \* the style record the tree stores for each node; Absent when none
    made,      \* the value objects the host has constructed
    outcome,   \* the last value-constructor call and how it ended
    children,  \* the child list the tree stores for each key
    parents,   \* the parent the tree stores for each key
    linked,    \* the keys that have an entry in children and in parents
    contexts,  \* the context the tree stores for each key, if any
    issued,    \* how many keys the node map and the link maps have issued
    handles,   \* the NodeIds the tree has returned to the host
    pass       \* the layout pass with a measure function, if one is under way

styleVars == <<prop, styles, nodes>>
valueVars == <<made, outcome>>
treeVars == <<children, parents, linked, contexts, issued, handles>>
vars == <<styleVars, valueVars, treeVars, pass>>

Absent == [absent |-> TRUE]
Slots == 1 .. MaxStyles
TreeSlots == {s \in Slots : s <= MaxTreeStyles}
NodeIds == 1 .. MaxNodes
NodeKeys == 1 .. MaxKeys
AllKeys == NodeIds \cup NodeKeys
Live == {s \in Slots : styles[s] # Absent}
LiveNodes == {n \in AllKeys : nodes[n] # Absent}

\* Where the next new object goes: the lowest free slot, if there is one.
Fresh(ids, live) == {d \in ids \ live : \A e \in ids \ live : d <= e}

\* The values the host writes to property k.
Inputs(k) == {DEFAULT[k], SAMPLE[k]}

IsOpt(k) == CTOR[CtorIndex[k]].opt

\* The Python value that extracts to the engine value t of property k.
ToPy(k, t) == IF ~IsOpt(k) THEN Py(t) ELSE IF t = None THEN PyNone ELSE Py(t[1])

\* The keyword bags the host constructs styles from: none, the addressed
\* property alone, every property at once, and every property but the
\* addressed one.
NoKwargs == [k \in {} |-> PyNone]
OneKwarg == {[k \in {prop} |-> ToPy(k, t)] : t \in Inputs(prop)}
AllKwargs ==
    {[k \in Keys |-> ToPy(k, IF k = prop THEN t ELSE SAMPLE[k])] : t \in Inputs(prop)}
RestKwargs == [k \in Keys \ {prop} |-> ToPy(k, SAMPLE[k])]

\* The f32 arguments the host passes to the value constructors.
F32Samples ==
    {Flt(0), NegZero, Flt(25), Flt(50), Flt(100),
     Flt(-1), Flt(-100), Flt(101), Flt(150), PosInf, NegInf, NaN}

\* The i16 and u16 arguments the host passes to GridLine and GridSpan.
I16Samples == {-32768, -1, 0, 1, 2, 32767}
U16Samples == {0, 1, 2, 65535}

Idle == [call |-> "none", arg |-> Flt(0), ok |-> TRUE, err |-> "none"]

\* What a value-constructor call leaves behind: the object, when there is
\* one, and the record of the call.
Held(r) == IF r.ok THEN made \cup {r.obj} ELSE made
Called(call, arg, r) ==
    [call |-> call, arg |-> arg, ok |-> r.ok, err |-> IF r.ok THEN "none" ELSE r.err]

\* ---- The tree (tree.rs, over the maps of the engine) --------------------

\* The maps of the engine as one value.
Tree ==
    [nodes |-> nodes, children |-> children, parents |-> parents,
     linked |-> linked, contexts |-> contexts, issued |-> issued]

\* The panic of an index with a key the map does not hold.
KeyPanic == Panic(StrPayload(SLOTMAP_KEY))
OutOfBounds(child_index, child_count) ==
    Fail([variant |-> "ChildIndexOutOfBounds", child_index |-> child_index,
          child_count |-> child_count])

\* One way for an engine call to end: the maps it leaves and its outcome.
One(t, out) == {[t |-> t, out |-> out]}

\* self.parents[key] = value for the keys of a list in turn; the index
\* panics at the first key that parents does not hold.
RECURSIVE SetParents(_, _, _)
SetParents(t, keys, value) ==
    IF keys = <<>> THEN [t |-> t, ok |-> TRUE]
    ELSE IF Head(keys) \notin t.linked THEN [t |-> t, ok |-> FALSE]
    ELSE SetParents([t EXCEPT !.parents[Head(keys)] = value], Tail(keys), value)

\* The engine's mark_dirty: it clears the cache of the node and goes on to the
\* parent, or stops at a node whose cache is empty already. The caches are
\* not kept, so the walk may stop at any node; it panics when it reaches a
\* key that nodes does not hold.
RECURSIVE MarkDirty(_, _, _)
MarkDirty(t, key, seen) ==
    IF t.nodes[key] = Absent THEN {KeyPanic}
    ELSE IF key \in seen \/ t.parents[key] = None THEN {Ret("()")}
    ELSE {Ret("()")} \cup MarkDirty(t, t.parents[key][1], seen \cup {key})

\* self.mark_dirty(node)?; Ok(val) at the end of an engine call.
Dirty(t, node, val) ==
    {[t |-> t, out |-> IF o.kind = "panic" THEN o ELSE Ret(val)] :
        o \in MarkDirty(t, node, {})}

\* catch_panic(|| ...)?.map_err(taffy_error_to_py), for each way the engine
\* call can end.
Trap(rs) == {[t |-> r.t, res |-> MapErr(catch_panic(r.out))] : r \in rs}

\* catch_node_panic(node, || ...)?.map_err(taffy_error_to_py)
TrapNode(node, rs) ==
    {[t |-> r.t, res |-> MapErr(catch_node_panic(node, r.out))] : r \in rs}

new_leaf(t, style) ==
    LET k == t.issued.nodes + 1
        l == t.issued.links + 1
    IN  {[t |-> [t EXCEPT !.nodes[k] = to_taffy(style),
                          !.children[l] = <<>>,
                          !.parents[l] = None,
                          !.linked = @ \cup {l},
                          !.issued = [nodes |-> k, links |-> l]],
          res |-> Ok(k)]}

new_leaf_with_context(t, style, context) ==
    LET k == t.issued.nodes + 1
        l == t.issued.links + 1
    IN  {[t |-> [t EXCEPT !.nodes[k] = to_taffy(style),
                          !.contexts[k] = Some(context),
                          !.children[l] = <<>>,
                          !.parents[l] = None,
                          !.linked = @ \cup {l},
                          !.issued = [nodes |-> k, links |-> l]],
          res |-> Ok(k)]}

get_node_context(t, node) == {[t |-> t, res |-> Ok(t.contexts[node])]}

set_node_context(t, node, context) ==
    TrapNode(node,
        IF t.nodes[node] = Absent THEN One(t, KeyPanic)
        ELSE Dirty([t EXCEPT !.contexts[node] = context], node, "()"))

\* The engine inserts the node, then writes the parent of each child, then
\* inserts the node's child list and parent.
new_with_children(t, style, child_ids) ==
    LET k == t.issued.nodes + 1
        l == t.issued.links + 1
        t1 == [t EXCEPT !.nodes[k] = to_taffy(style), !.issued.nodes = k]
        p == SetParents(t1, child_ids, Some(k))
        t2 == [p.t EXCEPT !.children[l] = child_ids,
                          !.parents[l] = None,
                          !.linked = @ \cup {l},
                          !.issued.links = l]
    IN  Trap(IF p.ok THEN One(t2, Ret(k)) ELSE One(p.t, KeyPanic))

\* The engine writes the parent of the child before it pushes the child.
add_child(t, parent, child) ==
    LET t1 == [t EXCEPT !.parents[child] = Some(parent)]
        t2 == [t1 EXCEPT !.children[parent] = Append(@, child)]
    IN  Trap(IF child \notin t.linked THEN One(t, KeyPanic)
             ELSE IF parent \notin t.linked THEN One(t1, KeyPanic)
             ELSE Dirty(t2, parent, "()"))

insert_child_at_index(t, parent, child_index, child) ==
    LET vec == t.children[parent]
        child_count == Len(vec)
        t2 == [t EXCEPT !.parents[child] = Some(parent),
                        !.children[parent] =
                            SubSeq(vec, 1, child_index) \o <<child>>
                                \o SubSeq(vec, child_index + 1, child_count)]
    IN  Trap(IF parent \notin t.linked THEN One(t, KeyPanic)
             ELSE IF child_index > child_count
             THEN One(t, OutOfBounds(child_index, child_count))
             ELSE IF child \notin t.linked THEN One(t, KeyPanic)
             ELSE Dirty(t2, parent, "()"))

\* The engine clears the parent of each current child, then writes the
\* parent of each new child, then replaces the list.
set_children(t, parent, child_ids) ==
    LET p1 == SetParents(t, t.children[parent], None)
        p2 == SetParents(p1.t, child_ids, Some(parent))
        t3 == [p2.t EXCEPT !.children[parent] = child_ids]
    IN  Trap(IF parent \notin t.linked THEN One(t, KeyPanic)
             ELSE IF ~p1.ok THEN One(p1.t, KeyPanic)
             ELSE IF ~p2.ok THEN One(p2.t, KeyPanic)
             ELSE Dirty(t3, parent, "()"))

\* The engine's remove_child_at_index, which remove_child calls as well.
inner_remove_child_at_index(t, parent, child_index) ==
    LET vec == t.children[parent]
        child_count == Len(vec)
        child == vec[child_index + 1]
        t1 == [t EXCEPT !.children[parent] =
                            SubSeq(vec, 1, child_index)
                                \o SubSeq(vec, child_index + 2, child_count)]
        t2 == [t1 EXCEPT !.parents[child] = None]
    IN  IF parent \notin t.linked THEN One(t, KeyPanic)
        ELSE IF child_index >= child_count
        THEN One(t, OutOfBounds(child_index, child_count))
        ELSE IF child \notin t.linked THEN One(t1, KeyPanic)
        ELSE Dirty(t2, parent, child)

remove_child(t, parent, child) ==
    LET vec == t.children[parent]
        at == {i \in 1 .. Len(vec) : vec[i] = child}
        index == (CHOOSE i \in at : \A j \in at : i <= j) - 1
    IN  Trap(IF parent \notin t.linked THEN One(t, KeyPanic)
             ELSE IF at = {}
             THEN One(t, Panic(StrPayload(<<"called", "Option::unwrap()", "on", "a",
                                            "None", "value">>)))
             ELSE inner_remove_child_at_index(t, parent, index))

remove_child_at_index(t, parent, child_index) ==
    TrapNode(parent, inner_remove_child_at_index(t, parent, child_index))

replace_child_at_index(t, parent, child_index, new_child) ==
    LET vec == t.children[parent]
        child_count == Len(vec)
        old_child == vec[child_index + 1]
        t1 == [t EXCEPT !.parents[new_child] = Some(parent),
                        !.children[parent][child_index + 1] = new_child]
        t2 == [t1 EXCEPT !.parents[old_child] = None]
    IN  Trap(IF parent \notin t.linked THEN One(t, KeyPanic)
             ELSE IF child_index >= child_count
             THEN One(t, OutOfBounds(child_index, child_count))
             ELSE IF new_child \notin t.linked THEN One(t, KeyPanic)
             ELSE IF old_child \notin t.linked THEN One(t1, KeyPanic)
             ELSE Dirty(t2, parent, old_child))

child_at_index(t, parent, child_index) ==
    LET vec == t.children[parent]
    IN  TrapNode(parent,
            IF parent \notin t.linked THEN One(t, KeyPanic)
            ELSE IF child_index >= Len(vec)
            THEN One(t, OutOfBounds(child_index, Len(vec)))
            ELSE One(t, Ret(vec[child_index + 1])))

children_of(t, parent) ==
    TrapNode(parent,
        IF parent \notin t.linked THEN One(t, KeyPanic)
        ELSE One(t, Ret(t.children[parent])))

child_count(t, parent) ==
    TrapNode(parent,
        IF parent \notin t.linked THEN One(t, KeyPanic)
        ELSE One(t, Ret(Len(t.children[parent]))))

parent_of(t, child) ==
    TrapNode(child,
        IF child \notin t.linked THEN One(t, KeyPanic)
        ELSE One(t, Ret(t.parents[child])))

total_node_count(t) == Cardinality({k \in AllKeys : t.nodes[k] # Absent})

\* The engine takes the node out of its parent's list, clears the parent of
\* each of its children, and removes its entries from children, parents
\* and nodes.
remove(t, node) ==
    LET up == t.parents[node]
        t1 == IF up # None /\ up[1] \in t.linked
              THEN [t EXCEPT !.children[up[1]] = SelectSeq(@, LAMBDA f : f # node)]
              ELSE t
        p == SetParents(t1, t1.children[node], None)
        t2 == [p.t EXCEPT !.children[node] = <<>>,
                          !.parents[node] = None,
                          !.linked = @ \ {node},
                          !.nodes[node] = Absent]
    IN  TrapNode(node,
            IF node \notin t.linked THEN One(t, KeyPanic)
            ELSE IF ~p.ok THEN One(p.t, KeyPanic)
            ELSE One(t2, Ret(node)))

clear(t) ==
    {[t |-> [t EXCEPT !.nodes = [k \in AllKeys |-> Absent],
                      !.children = [k \in AllKeys |-> <<>>],
                      !.parents = [k \in AllKeys |-> None],
                      !.linked = {}],
      res |-> Ok("()")]}

set_style(t, node, style) ==
    TrapNode(node,
        IF t.nodes[node] = Absent THEN One(t, KeyPanic)
        ELSE Dirty([t EXCEPT !.nodes[node] = to_taffy(style)], node, "()"))

style_of(t, node) ==
    {[t |-> r.t, res |-> IF r.res.ok THEN Ok(Style_from(r.res.val)) ELSE r.res] :
        r \in TrapNode(node,
                IF t.nodes[node] = Absent THEN One(t, KeyPanic)
                ELSE One(t, Ret(t.nodes[node])))}

mark_dirty(t, node) == TrapNode(node, Dirty(t, node, "()"))

\* Whether the cache of the node is empty is not kept: either answer.
dirty(t, node) ==
    TrapNode(node,
        IF t.nodes[node] = Absent THEN One(t, KeyPanic)
        ELSE {[t |-> t, out |-> Ret(b)] : b \in BOOLEAN})

layout(t, node) ==
    TrapNode(node,
        IF t.nodes[node] = Absent THEN One(t, KeyPanic)
        ELSE One(t, Ret("Layout")))

\* The keys the layout of a node visits: the node and its descendants.
RECURSIVE Subtree(_, _)
Subtree(t, keys) ==
    LET more == keys \cup UNION {{t.children[k][i] : i \in 1 .. Len(t.children[k])} : k \in keys}
    IN  IF more = keys THEN keys ELSE Subtree(t, more)

\* compute_layout(node) without a measure function: the engine reads the
\* style and the child list of every key it visits.
compute_layout(t, node) ==
    Trap(IF \E k \in Subtree(t, {node}) : t.nodes[k] = Absent \/ k \notin t.linked
         THEN One(t, KeyPanic)
         ELSE One(t, Ret("()")))

unrounded_layout(t, node) ==
    TrapNode(node,
        IF t.nodes[node] = Absent THEN One(t, KeyPanic)
        ELSE One(t, Ret("Layout")))

\* The maps of the tree after a call that ended as r.
Becomes(r) ==
    /\ nodes' = r.t.nodes
    /\ children' = r.t.children
    /\ parents' = r.t.parents
    /\ linked' = r.t.linked
    /\ contexts' = r.t.contexts
    /\ issued' = r.t.issued

\* ---- compute_layout with a measure function (tree.rs) ------------------

\* taffy::Size::ZERO, and the pass when compute_layout has not been called
\* with a measure function: no root, no invocation of the adapter.
ZERO == [width |-> Flt(0), height |-> Flt(0)]
NoPass ==
    [phase |-> "idle", root |-> 0, py_err |-> None, hosted |-> 0, measured |-> 0,
     last |-> [node |-> 0, known |-> [width |-> None, height |-> None],
               ret |-> ZERO, called |-> FALSE, given |-> None,
               host |-> [kind |-> "none"]],
     engine |-> Ret("()"), result |-> Ok("()"), refused |-> FALSE]

\* A method of the tree borrows the tree for the call. compute_layout holds
\* the tree mutably borrowed until it returns, so a call made meanwhile, from
\* the host's measure function, is refused before the method runs: it raises
\* and writes nothing.
Borrowing_Unchecked(call) == call

Borrowing(call) ==
    IF pass.phase = "running"
    THEN /\ pass' = [pass EXCEPT !.refused = TRUE]
         /\ UNCHANGED <<styleVars, valueVars, treeVars>>
    ELSE call

\* A faulty closure that does not look at the cell before it goes on.
measure_IgnoresCell(py_err, known, node_context, measure_fn) ==
    LET back(ret) == [ret |-> ret, py_err |-> py_err, called |-> FALSE, given |-> None]
        host(ret, err) == [ret |-> ret, py_err |-> err, called |-> TRUE,
                           given |-> node_context]
    IN  IF known.width # None /\ known.height # None
        THEN back([width |-> known.width[1], height |-> known.height[1]])
        ELSE IF node_context = None THEN back(ZERO)
        ELSE IF measure_fn.kind = "raise" THEN host(ZERO, Some(measure_fn.err))
        ELSE IF measure_fn.val.type = "Size"
        THEN host([width |-> measure_fn.val.width, height |-> measure_fn.val.height],
                  py_err)
        ELSE host(ZERO, Some(PyErr("TypeError",
                                   <<"object cannot be converted to", "Size">>)))

\* A faulty closure that asks the host function although both sizes are
\* known.
measure_AsksAnyway(py_err, known, node_context, measure_fn) ==
    LET back(ret) == [ret |-> ret, py_err |-> py_err, called |-> FALSE, given |-> None]
        host(ret, err) == [ret |-> ret, py_err |-> err, called |-> TRUE,
                           given |-> node_context]
    IN  IF py_err # None THEN back(ZERO)
        ELSE IF node_context = None THEN back(ZERO)
        ELSE IF measure_fn.kind = "raise" THEN host(ZERO, Some(measure_fn.err))
        ELSE IF measure_fn.val.type = "Size"
        THEN host([width |-> measure_fn.val.width, height |-> measure_fn.val.height],
                  py_err)
        ELSE host(ZERO, Some(PyErr("TypeError",
                                   <<"object cannot be converted to", "Size">>)))

\* A faulty closure that calls the host function for a node without a
\* context.
measure_WithoutContext(py_err, known, node_context, measure_fn) ==
    LET back(ret) == [ret |-> ret, py_err |-> py_err, called |-> FALSE, given |-> None]
        host(ret, err) == [ret |-> ret, py_err |-> err, called |-> TRUE,
                           given |-> node_context]
    IN  IF py_err # None THEN back(ZERO)
        ELSE IF known.width # None /\ known.height # None
        THEN back([width |-> known.width[1], height |-> known.height[1]])
        ELSE IF measure_fn.kind = "raise" THEN host(ZERO, Some(measure_fn.err))
        ELSE IF measure_fn.val.type = "Size"
        THEN host([width |-> measure_fn.val.width, height |-> measure_fn.val.height],
                  py_err)
        ELSE host(ZERO, Some(PyErr("TypeError",
                                   <<"object cannot be converted to", "Size">>)))

\* The closure the engine calls to measure a node. measure_fn is what the
\* host function does when it is called: it raises err or returns val.
\* The closure returns ret and leaves py_err in the cell; called tells
\* whether it called the host function, and given is the context it passed.
measure(py_err, known, node_context, measure_fn) ==
    LET back(ret) == [ret |-> ret, py_err |-> py_err, called |-> FALSE, given |-> None]
        host(ret, err) == [ret |-> ret, py_err |-> err, called |-> TRUE,
                           given |-> node_context]
    IN  IF py_err # None THEN back(ZERO)
        ELSE IF known.width # None /\ known.height # None
        THEN back([width |-> known.width[1], height |-> known.height[1]])
        ELSE IF node_context = None THEN back(ZERO)
        ELSE IF measure_fn.kind = "raise" THEN host(ZERO, Some(measure_fn.err))
        ELSE IF measure_fn.val.type = "Size"
        THEN host([width |-> measure_fn.val.width, height |-> measure_fn.val.height],
                  py_err)
        ELSE host(ZERO, Some(PyErr("TypeError",
                                   <<"object cannot be converted to", "Size">>)))

\* A faulty ending that reports what the engine call ended in first.
compute_layout_result_EngineFirst(py_err, result) ==
    IF result.kind # "ok" \/ py_err = None THEN MapErr(catch_panic(result))
    ELSE Err(py_err[1])

\* What compute_layout returns once the engine call has ended in result
\* with py_err in the cell.
compute_layout_result(py_err, result) ==
    IF py_err # None THEN Err(py_err[1]) ELSE MapErr(catch_panic(result))

\* tree.compute_layout(root, measure=f) is called: the engine call begins.
BeginLayout(root) ==
    Borrowing(
        /\ root \in handles
        /\ pass' = [NoPass EXCEPT !.phase = "running", !.root = root]
        /\ UNCHANGED <<styleVars, valueVars, treeVars>>)

\* The engine calls the closure for a leaf under the root with the context
\* of that leaf.
Measure(node, known, measure_fn) ==
    /\ pass.phase = "running"
    /\ pass.measured < MaxMeasures
    /\ node \in Subtree(Tree, {pass.root})
    /\ nodes[node] # Absent
    /\ children[node] = <<>>
    /\ LET m == measure(pass.py_err, known, contexts[node], measure_fn)
       IN  pass' = [pass EXCEPT !.py_err = m.py_err,
                                !.hosted = IF m.called THEN @ + 1 ELSE @,
                                !.measured = @ + 1,
                                !.last = [node |-> node, known |-> known, ret |-> m.ret,
                                          called |-> m.called, given |-> m.given,
                                          host |-> IF m.called THEN measure_fn
                                                   ELSE [kind |-> "none"]]]
    /\ UNCHANGED <<styleVars, valueVars, treeVars>>

\* The engine call ends in result and compute_layout returns.
EndLayout(result) ==
    /\ pass.phase = "running"
    /\ pass' = [pass EXCEPT !.phase = "done",
                            !.engine = result,
                            !.result = compute_layout_result(pass.py_err, result)]
    /\ UNCHANGED <<styleVars, valueVars, treeVars>>

StyleInit ==
    /\ prop \in Keys
    /\ styles = [s \in Slots |-> Absent]
    /\ nodes = [n \in AllKeys |-> Absent]

ValueInit ==
    /\ made = {}
    /\ outcome = Idle

TreeInit ==
    /\ children = [k \in AllKeys |-> <<>>]
    /\ parents = [k \in AllKeys |-> None]
    /\ linked = {}
    /\ contexts = [k \in AllKeys |-> None]
    /\ issued = [nodes |-> 0, links |-> 0]
    /\ handles = {}
    /\ pass = NoPass

\* s = Style(**kwargs)
New(d, kwargs) ==
    /\ d \in Fresh(Slots, Live)
    /\ LET r == Style_new(kwargs)
       IN  /\ styles' = IF r.ok THEN [styles EXCEPT ![d] = r.style] ELSE styles
           /\ outcome' = IF r.ok THEN Idle
                          ELSE [call |-> "Style", arg |-> kwargs, ok |-> FALSE,
                                err |-> r.err, msg |-> r.msg]
    /\ UNCHANGED <<prop, nodes, made, treeVars, pass>>

\* A faulty setter step on a Style the tree shares instead of copying: the
\* write reaches every node that holds the record of the Style written.
Set_WritesThrough(s, py_val) ==
    /\ s \in Live
    /\ LET r == Style_setattr(styles[s], prop, py_val)
       IN  /\ styles' = [styles EXCEPT ![s] = r.style]
           /\ nodes' = [n \in AllKeys |->
                           IF nodes[n] = to_taffy(styles[s])
                           THEN to_taffy(r.style)
                           ELSE nodes[n]]
           /\ outcome' = IF r.ok THEN Idle
                          ELSE [call |-> "setattr", arg |-> py_val, ok |-> FALSE,
                                err |-> r.err]
    /\ UNCHANGED <<prop, made, treeVars, pass>>

\* s.prop = py_val
Set(s, py_val) ==
    /\ s \in Live
    /\ LET r == Style_setattr(styles[s], prop, py_val)
       IN  /\ styles' = [styles EXCEPT ![s] = r.style]
           /\ outcome' = IF r.ok THEN Idle
                          ELSE [call |-> "setattr", arg |-> py_val, ok |-> FALSE,
                                err |-> r.err]
    /\ UNCHANGED <<prop, nodes, made, treeVars, pass>>

\* A faulty merge step that works in place: the left operand receives the
\* result too.
Or_InPlace(d, x, y) ==
    /\ d \in Fresh(Slots, Live)
    /\ x \in Live
    /\ y \in Live
    /\ LET r == Style_or(styles[x], styles[y])
       IN  styles' = [styles EXCEPT ![d] = r, ![x] = r]
    /\ UNCHANGED <<prop, nodes, valueVars, treeVars, pass>>

\* d = x | y
Or(d, x, y) ==
    /\ d \in Fresh(Slots, Live)
    /\ x \in Live
    /\ y \in Live
    /\ styles' = [styles EXCEPT ![d] = Style_or(styles[x], styles[y])]
    /\ UNCHANGED <<prop, nodes, valueVars, treeVars, pass>>

\* n = tree.new_leaf(s)
NewLeaf(n, s) ==
    Borrowing(
        /\ n = issued.nodes + 1
        /\ s \in Live
        /\ \E r \in new_leaf(Tree, styles[s]) :
              /\ Becomes(r)
              /\ handles' = handles \cup {r.res.val}
        /\ UNCHANGED <<prop, styles, valueVars, pass>>)

\* tree.set_style(n, s)
SetStyle(n, s) ==
    Borrowing(
        /\ n \in handles
        /\ s \in Live
        /\ \E r \in set_style(Tree, n, styles[s]) : Becomes(r)
        /\ UNCHANGED <<prop, styles, valueVars, handles, pass>>)

\* d = tree.style(n)
GetStyle(d, n) ==
    Borrowing(
        /\ d \in Fresh(Slots, Live)
        /\ n \in handles
        /\ \E r \in style_of(Tree, n) :
              styles' = IF r.res.ok THEN [styles EXCEPT ![d] = r.res.val] ELSE styles
        /\ UNCHANGED <<prop, nodes, valueVars, treeVars, pass>>)

\* The child lists the host passes.
ChildLists == UNION {[1 .. n -> handles] : n \in 0 .. MaxChildren}

\* n = tree.new_leaf_with_context(s, context)
NewLeafWithContext(n, s, context) ==
    Borrowing(
        /\ n = issued.nodes + 1
        /\ s \in Live
        /\ \E r \in new_leaf_with_context(Tree, styles[s], context) :
              /\ Becomes(r)
              /\ handles' = handles \cup {r.res.val}
        /\ UNCHANGED <<prop, styles, valueVars, pass>>)

\* tree.set_node_context(n, context)
SetNodeContext(n, context) ==
    Borrowing(
        /\ n \in handles
        /\ \E r \in set_node_context(Tree, n, context) : Becomes(r)
        /\ UNCHANGED <<prop, styles, valueVars, handles, pass>>)

\* n = tree.new_with_children(s, child_ids)
NewWithChildren(n, s, child_ids) ==
    Borrowing(
        /\ n = issued.nodes + 1
        /\ s \in Live
        /\ \E r \in new_with_children(Tree, styles[s], child_ids) :
              /\ Becomes(r)
              /\ handles' = IF r.res.ok THEN handles \cup {r.res.val} ELSE handles
        /\ UNCHANGED <<prop, styles, valueVars, pass>>)

\* tree.add_child(parent, child)
AddChild(parent, child) ==
    Borrowing(
        /\ {parent, child} \subseteq handles
        /\ Len(children[parent]) < MaxChildren
        /\ \E r \in add_child(Tree, parent, child) : Becomes(r)
        /\ UNCHANGED <<prop, styles, valueVars, handles, pass>>)

\* tree.insert_child_at_index(parent, child_index, child)
InsertChildAtIndex(parent, child_index, child) ==
    Borrowing(
        /\ {parent, child} \subseteq handles
        /\ Len(children[parent]) < MaxChildren
        /\ \E r \in insert_child_at_index(Tree, parent, child_index, child) : Becomes(r)
        /\ UNCHANGED <<prop, styles, valueVars, handles, pass>>)

\* tree.set_children(parent, child_ids)
SetChildren(parent, child_ids) ==
    Borrowing(
        /\ parent \in handles
        /\ \E r \in set_children(Tree, parent, child_ids) : Becomes(r)
        /\ UNCHANGED <<prop, styles, valueVars, handles, pass>>)

\* tree.remove_child(parent, child)
RemoveChild(parent, child) ==
    Borrowing(
        /\ {parent, child} \subseteq handles
        /\ \E r \in remove_child(Tree, parent, child) : Becomes(r)
        /\ UNCHANGED <<prop, styles, valueVars, handles, pass>>)

\* tree.remove_child_at_index(parent, child_index)
RemoveChildAtIndex(parent, child_index) ==
    Borrowing(
        /\ parent \in handles
        /\ \E r \in remove_child_at_index(Tree, parent, child_index) : Becomes(r)
        /\ UNCHANGED <<prop, styles, valueVars, handles, pass>>)

\* tree.replace_child_at_index(parent, child_index, new_child)
ReplaceChildAtIndex(parent, child_index, new_child) ==
    Borrowing(
        /\ {parent, new_child} \subseteq handles
        /\ \E r \in replace_child_at_index(Tree, parent, child_index, new_child) :
              Becomes(r)
        /\ UNCHANGED <<prop, styles, valueVars, handles, pass>>)

\* tree.remove(n)
Remove(n) ==
    Borrowing(
        /\ n \in handles
        /\ \E r \in remove(Tree, n) : Becomes(r)
        /\ UNCHANGED <<prop, styles, valueVars, handles, pass>>)

\* tree.clear()
Clear ==
    Borrowing(
        /\ \E r \in clear(Tree) : Becomes(r)
        /\ UNCHANGED <<prop, styles, valueVars, handles, pass>>)

\* Percent(value)
PercentNew(value) ==
    /\ LET r == Percent_new(value)
       IN  /\ made' = IF r.ok THEN made \cup {r.obj} ELSE made
           /\ outcome' = [call |-> "Percent", arg |-> value, ok |-> r.ok,
                          err |-> IF r.ok THEN "none" ELSE r.err]
    /\ UNCHANGED <<styleVars, treeVars, pass>>

\* Length(value)
LengthNew(value) ==
    /\ LET r == Length_new(value)
       IN  /\ Cardinality(Held(r)) <= MaxMade
           /\ made' = Held(r)
           /\ outcome' = Called("Length", value, r)
    /\ UNCHANGED <<styleVars, treeVars, pass>>

\* GridLine(index)
GridLineNew(index) ==
    /\ LET r == GridLine_new(index)
       IN  /\ Cardinality(Held(r)) <= MaxMade
           /\ made' = Held(r)
           /\ outcome' = Called("GridLine", index, r)
    /\ UNCHANGED <<styleVars, treeVars, pass>>

\* GridSpan(count)
GridSpanNew(count) ==
    /\ LET r == GridSpan_new(count)
       IN  /\ Cardinality(Held(r)) <= MaxMade
           /\ made' = Held(r)
           /\ outcome' = Called("GridSpan", count, r)
    /\ UNCHANGED <<styleVars, treeVars, pass>>

\* Dimension.percent(value)
DimensionPercent(value) ==
    /\ LET r == Dimension_percent(value)
       IN  /\ Cardinality(Held(r)) <= MaxMade
           /\ made' = Held(r)
           /\ outcome' = Called("Dimension.percent", value, r)
    /\ UNCHANGED <<styleVars, treeVars, pass>>

\* Styles built, written and merged by the host.
Init == StyleInit /\ ValueInit /\ TreeInit

Next ==
    \/ \E d \in Fresh(Slots, Live) :
          \E kwargs \in {NoKwargs, RestKwargs} \cup OneKwarg \cup AllKwargs :
             New(d, kwargs)
    \/ \E s \in Live : \E value \in Inputs(prop) : Set(s, ToPy(prop, value))
    \/ \E d \in Fresh(Slots, Live) : \E x, y \in Live : Or(d, x, y)

Spec == Init /\ [][Next]_vars

\* Styles stored in the tree and read back from it.
TreeNext ==
    \/ \E d \in Fresh(TreeSlots, Live) :
          \E kwargs \in {NoKwargs} \cup OneKwarg : New(d, kwargs)
    \/ \E s \in Live : \E value \in Inputs(prop) : Set(s, ToPy(prop, value))
    \/ \E d \in Fresh(TreeSlots, Live) : \E x, y \in Live : Or(d, x, y)
    \/ \E n \in Fresh(NodeIds, LiveNodes) : \E s \in Live : NewLeaf(n, s)
    \/ \E n \in LiveNodes : \E s \in Live : SetStyle(n, s)
    \/ \E d \in Fresh(TreeSlots, Live) : \E n \in LiveNodes : GetStyle(d, n)

SpecTree == Init /\ [][TreeNext]_vars

\* Styles built and written by a host that also passes values outside the
\* accept-set of the addressed property: an object of another type, or None
\* where the property does not admit it, alone or among values that are
\* accepted.
RejectsNext ==
    \/ \E d \in Fresh(TreeSlots, Live) :
          \E kwargs \in {NoKwargs} \cup OneKwarg
                          \cup {[k \in {prop} |-> v] : v \in {PyNone, PyOther}}
                          \cup {[k \in Keys |-> IF k = prop THEN v ELSE ToPy(k, SAMPLE[k])] :
                                   v \in {PyNone, PyOther}} :
             New(d, kwargs)
    \/ \E s \in Live :
          \E py_val \in {ToPy(prop, value) : value \in Inputs(prop)} \cup {PyNone, PyOther} :
             Set(s, py_val)

SpecRejects == Init /\ [][RejectsNext]_vars

\* The value constructors called by the host.
ValuesInit ==
    /\ prop = "display"
    /\ styles = [s \in Slots |-> Absent]
    /\ nodes = [n \in AllKeys |-> Absent]
    /\ ValueInit
    /\ TreeInit

ValuesNext == \E value \in F32Samples : PercentNew(value)

SpecValues == ValuesInit /\ [][ValuesNext]_vars

\* The constructors of Length, GridLine and GridSpan called by the host.
CtorsNext ==
    \/ \E value \in F32Samples : LengthNew(value)
    \/ \E index \in I16Samples : GridLineNew(index)
    \/ \E count \in U16Samples : GridSpanNew(count)
    \/ \E value \in F32Samples : DimensionPercent(value)

SpecCtors == ValuesInit /\ [][CtorsNext]_vars

\* A grid track the host has constructed is written to a style: the setter
\* converts it with GridTrackInput::to_taffy.
SetGridTrack ==
    /\ outcome.call = "host"
    /\ outcome' = [call |-> "to_taffy", arg |-> outcome.arg,
                   tsf |-> GridTrackInput_to_taffy(outcome.arg)]
    /\ UNCHANGED <<styleVars, made, treeVars, pass>>

\* The getter reads the track back with grid_track_to_py.
GetGridTrack ==
    /\ outcome.call = "to_taffy"
    /\ outcome' = [call |-> "to_py", arg |-> outcome.arg, tsf |-> outcome.tsf,
                   py |-> grid_track_to_py(outcome.tsf)]
    /\ UNCHANGED <<styleVars, made, treeVars, pass>>

\* Every grid track the host can construct over the sample floats: Length and
\* Fraction take any f32, Percent those its constructor accepts, FitContent a
\* Length or a Percent, Minmax a min and a max of the types it extracts.
TracksInit ==
    /\ prop = "display"
    /\ styles = [s \in Slots |-> Absent]
    /\ nodes = [n \in AllKeys |-> Absent]
    /\ made = {}
    /\ LET lengths == {[type |-> "Length", value |-> v] : v \in F32Samples}
           percents == {Percent_new(v).obj : v \in {w \in F32Samples : Percent_new(w).ok}}
           keywords == {[type |-> "Auto"], [type |-> "MinContent"], [type |-> "MaxContent"]}
           fractions == {[type |-> "Fraction", value |-> v] : v \in F32Samples}
           fits == {[type |-> "FitContent", limit |-> l] : l \in lengths \cup percents}
           mins == lengths \cup percents \cup keywords
           maxes == mins \cup fractions \cup fits
           minmaxes == {[type |-> "Minmax", min |-> lo, max |-> hi] :
                           lo \in mins, hi \in maxes}
       IN  outcome \in {[call |-> "host", arg |-> x] :
                           x \in maxes \cup minmaxes}
    /\ TreeInit

TracksNext ==
    \/ SetGridTrack
    \/ GetGridTrack

SpecTracks == TracksInit /\ [][TracksNext]_vars

\* catch_panic(|| ...) over the engine call under way
CatchPanic ==
    /\ outcome.call = "engine"
    /\ LET f == outcome.arg
           r == catch_panic(f)
       IN  outcome' = [call |-> "catch_panic", arg |-> f, ok |-> r.ok,
                       err |-> IF r.ok THEN "none" ELSE r.err]
    /\ UNCHANGED <<styleVars, made, treeVars, pass>>

\* catch_node_panic(node, || ...) over the engine call under way
CatchNodePanic(node) ==
    /\ outcome.call = "engine"
    /\ LET f == outcome.arg
           r == catch_node_panic(node, f)
       IN  outcome' = [call |-> "catch_node_panic", arg |-> f, ok |-> r.ok,
                       err |-> IF r.ok THEN "none" ELSE r.err]
    /\ UNCHANGED <<styleVars, made, treeVars, pass>>

\* Engine calls under the two panic traps, one for each way a call can end:
\* in a return, or in a panic whose payload is a &str or a String of up to
\* MaxMsgLen of the words of the two key-map messages, or another value.
PanicInit ==
    /\ prop = "display"
    /\ styles = [s \in Slots |-> Absent]
    /\ nodes = [n \in AllKeys |-> Absent]
    /\ made = {}
    /\ LET words == {"invalid", "SlotMap", "SparseSecondaryMap", "key", "used"}
           messages == UNION {[1 .. n -> words] : n \in 0 .. MaxMsgLen}
           payloads == {OtherPayload} \cup {StrPayload(msg) : msg \in messages}
                                      \cup {StringPayload(msg) : msg \in messages}
           closures == {Ret("()")} \cup {Panic(payload) : payload \in payloads}
       IN  outcome \in {[call |-> "engine", arg |-> f, ok |-> TRUE, err |-> "none"] :
                            f \in closures}
    /\ TreeInit

PanicNext ==
    \/ CatchPanic
    \/ \E node \in NodeIds : CatchNodePanic(node)

SpecPanic == PanicInit /\ [][PanicNext]_vars

\* A tree the host builds, rearranges and prunes, with two Styles at hand.
NodesInit ==
    /\ prop = "display"
    /\ styles = [s \in Slots |->
                    IF s = 1 THEN Style_new(NoKwargs).style
                    ELSE IF s = 2 THEN Style_set(Style_new(NoKwargs).style, prop, SAMPLE[prop])
                    ELSE Absent]
    /\ nodes = [n \in AllKeys |-> Absent]
    /\ ValueInit
    /\ TreeInit

NodesNext ==
    \/ \E n \in NodeKeys : \E s \in Live : NewLeaf(n, s)
    \/ \E n \in NodeKeys : \E s \in Live : NewLeafWithContext(n, s, "a")
    \/ \E n \in NodeKeys : \E s \in Live : \E child_ids \in ChildLists :
          NewWithChildren(n, s, child_ids)
    \/ \E parent, child \in handles : AddChild(parent, child)
    \/ \E parent, child \in handles : \E child_index \in 0 .. MaxChildren :
          InsertChildAtIndex(parent, child_index, child)
    \/ \E parent \in handles : \E child_ids \in ChildLists :
          SetChildren(parent, child_ids)
    \/ \E parent, child \in handles : RemoveChild(parent, child)
    \/ \E parent \in handles : \E child_index \in 0 .. MaxChildren :
          RemoveChildAtIndex(parent, child_index)
    \/ \E parent, new_child \in handles : \E child_index \in 0 .. MaxChildren :
          ReplaceChildAtIndex(parent, child_index, new_child)
    \/ \E n \in handles : Remove(n)
    \/ Clear
    \/ \E n \in handles : \E s \in Live : SetStyle(n, s)
    \/ \E n \in handles : \E context \in {None, Some("a")} :
          SetNodeContext(n, context)

SpecNodes == NodesInit /\ [][NodesNext]_vars

\* Layout passes with a measure function over a tree of a root with two
\* leaves, the first with a context, whose contexts the host changes between
\* passes and which it tries to change from inside its measure function
\* while a pass runs. The host function raises one of two errors, returns a Size or
\* returns a str; the engine knows the width, the height, both or neither
\* beforehand; the engine call ends in success, an error or a panic, of a
\* key map or not.
LayoutInit ==
    /\ prop = "display"
    /\ styles = [s \in Slots |-> IF s = 1 THEN Style_new(NoKwargs).style ELSE Absent]
    /\ nodes = [n \in AllKeys |-> IF n <= 3 THEN to_taffy(Style_new(NoKwargs).style) ELSE Absent]
    /\ ValueInit
    /\ children = [k \in AllKeys |-> IF k = 3 THEN <<1, 2>> ELSE <<>>]
    /\ parents = [k \in AllKeys |-> IF k \in {1, 2} THEN Some(3) ELSE None]
    /\ linked = {1, 2, 3}
    /\ contexts = [k \in AllKeys |-> IF k = 1 THEN Some("a") ELSE None]
    /\ issued = [nodes |-> 3, links |-> 3]
    /\ handles = {1, 2, 3}
    /\ pass = NoPass

LayoutNext ==
    \/ \E n \in {1, 2} : \E context \in {None, Some("a"), Some("b")} :
          SetNodeContext(n, context)
    \/ \E n \in NodeKeys : pass.phase = "running" /\ NewLeaf(n, 1)
    \/ \E parent, child \in handles : pass.phase = "running" /\ AddChild(parent, child)
    \/ \E n \in handles : pass.phase = "running" /\ Remove(n)
    \/ \E n \in handles : pass.phase = "running" /\ SetStyle(n, 1)
    \/ pass.phase = "running" /\ Clear
    \/ \E root \in handles : BeginLayout(root)
    \/ \E node \in LiveNodes :
       \E known \in [width : {None, Some(Flt(100))}, height : {None, Some(Flt(200))}] :
       \E measure_fn \in
             {[kind |-> "raise", err |-> PyErr("ValueError", <<e>>)] : e \in {"first", "second"}}
                \cup {[kind |-> "return",
                       val |-> [type |-> "Size", width |-> Flt(300), height |-> Flt(400)]],
                      [kind |-> "return",
                       val |-> [type |-> "str", width |-> Flt(0), height |-> Flt(0)]]} :
          Measure(node, known, measure_fn)
    \/ \E result \in
             {Ret("()"), Fail([variant |-> "InvalidInputNode", node |-> 0]), KeyPanic,
              Panic(StringPayload(<<"attempt", "to", "subtract", "with", "overflow">>))} :
          EndLayout(result)

SpecLayout == LayoutInit /\ [][LayoutNext]_vars

(***************************************************************************)
(* Properties of the Style value.                                          *)
(***************************************************************************)

\* The flag of property k is the bit its setter sets.
Flag(k) == SETTER[k]
HasFlag(style, k) == BitAnd(style.set_fields, Flag(k)) # Zero

\* C1: for all Styles a and b that the host can merge, a | b holds, for
\* every property k, b's value of k when k's flag is set in b and a's value
\* of k when it is clear in b.
C1_MergeTakesOverlayWhereSet ==
    \A d \in Fresh(Slots, Live) : \A x, y \in Live :
        LET a == styles[x]
            b == styles[y]
            r == Style_or(a, b)
        IN  \A k \in Keys :
                r.inner[k] = IF HasFlag(b, k) THEN b.inner[k] ELSE a.inner[k]

\* d holds x | y, where y overrides a property of x with another value,
\* y sets a property to its default that x holds otherwise, and y leaves a
\* non-default property of x alone.
C1_Witness ==
    \E x, y, d \in Live :
        /\ x # d
        /\ y # d
        /\ styles[d] = Style_or(styles[x], styles[y])
        /\ HasFlag(styles[y], prop)
        /\ styles[y].inner[prop] = DEFAULT[prop]
        /\ styles[x].inner[prop] # DEFAULT[prop]
        /\ \E k \in Keys :
              /\ ~HasFlag(styles[y], k)
              /\ styles[x].inner[k] # DEFAULT[k]

\* C2: for all Styles a and b that the host can merge, the field mask of
\* a | b has exactly the bits that a's mask or b's mask has.
C2_MergeMaskIsUnion ==
    \A d \in Fresh(Slots, Live) : \A x, y \in Live :
        LET r == Style_or(styles[x], styles[y])
        IN  \A i \in U64_MAX :
                i \in r.set_fields
                    <=> (i \in styles[x].set_fields \/ i \in styles[y].set_fields)

\* d holds x | y for operands whose masks each have a bit the other lacks.
C2_Witness ==
    \E x, y, d \in Live :
        /\ x # d
        /\ y # d
        /\ styles[d] = Style_or(styles[x], styles[y])
        /\ styles[x].set_fields \ styles[y].set_fields # {}
        /\ styles[y].set_fields \ styles[x].set_fields # {}

\* C3: merge is associative: for the Styles a, b, c that the host holds,
\* (a | b) | c and a | (b | c) agree on every property value and on the
\* field mask.  Objects are taken in the order of their allocation; any
\* object may hold any value, so the triples of values are all there.
C3_MergeAssociative ==
    \A x, y, z \in Live :
        (x < y /\ y < z) =>
            LET a == styles[x]
                b == styles[y]
                c == styles[z]
                l == Style_or(Style_or(a, b), c)
                r == Style_or(a, Style_or(b, c))
            IN  /\ \A k \in Keys : l.inner[k] = r.inner[k]
                /\ l.set_fields = r.set_fields

\* Three styles are held, in the order a, b, c, of which each merge changes
\* something: a | b is neither a nor b, b | c is neither b nor c, and
\* (a | b) | c is neither a | b nor c.
C3_Witness ==
    \E x, y, z \in Live :
        /\ x < y
        /\ y < z
        /\ LET ab == Style_or(styles[x], styles[y])
               bc == Style_or(styles[y], styles[z])
               abc == Style_or(ab, styles[z])
           IN  /\ ab # styles[x]
               /\ ab # styles[y]
               /\ bc # styles[y]
               /\ bc # styles[z]
               /\ abc # ab
               /\ abc # styles[z]

\* C4: a step that puts a Style in a new object, as a merge does, changes no
\* Style that exists, the operands of the merge included; and a step that
\* changes a Style, as a setter write does, changes no other, so writing to
\* a merge result changes neither operand.
C4_MergeIsPure ==
    [][ /\ \A d \in Fresh(Slots, Live) :
              styles'[d] # Absent => \A s \in Live : styles'[s] = styles[s]
        /\ \A s \in Live :
              styles'[s] # styles[s] =>
                  \A t \in Slots \ {s} : styles'[t] = styles[t]
      ]_vars

\* d holds x | y written to afterwards: it is the merge of the operands with
\* the addressed property set to another value than the merge gave it.
C4_Witness ==
    \E x, y, d \in Live :
        /\ x # d
        /\ y # d
        /\ x # y
        /\ LET m == Style_or(styles[x], styles[y])
           IN  /\ m # styles[x]
               /\ m # styles[y]
               /\ \E value \in Inputs(prop) :
                     /\ value # m.inner[prop]
                     /\ styles[d] = Style_set(m, prop, value)

\* C5: in every Style reachable through the constructor, the setters and
\* merges, a property whose flag is clear holds the engine's default value.
C5_ClearFlagReadsDefault ==
    \A s \in Live : \A k \in Keys :
        ~HasFlag(styles[s], k) => styles[s].inner[k] = DEFAULT[k]

\* d holds a merge x | y with a clear flag and with a set flag whose value
\* is not the default.
C5_Witness ==
    \E x, y, d \in Live :
        /\ x # d
        /\ y # d
        /\ styles[d] = Style_or(styles[x], styles[y])
        /\ \E k \in Keys : ~HasFlag(styles[d], k)
        /\ \E k \in Keys : HasFlag(styles[d], k) /\ styles[d].inner[k] # DEFAULT[k]

\* C6: a setter write of value to the addressed property of any Style the
\* host holds, whether built, merged or read from the tree, gives a Style
\* with the property's flag set that holds value, whether or not value is
\* the default; and merging any Style with it as the right operand yields
\* value for the property.
C6_WriteSetsFlag ==
    \A s \in Live : \A value \in Inputs(prop) :
        LET written == Style_set(styles[s], prop, value)
        IN  /\ HasFlag(written, prop)
            /\ written.inner[prop] = value
            /\ \A x \in Live :
                  Style_or(styles[x], written).inner[prop] = value

\* A Style written to has nothing but the addressed property's flag set, on
\* the default value, and another Style holds a different value of it with
\* the flag set.
C6_Witness ==
    \E s, x \in Live :
        /\ styles[s] = Style_set(Style_new(NoKwargs).style, prop, DEFAULT[prop])
        /\ HasFlag(styles[x], prop)
        /\ styles[x].inner[prop] # DEFAULT[prop]

\* C7: no step clears a flag of a Style, and the mask of a merge result has
\* every flag that either operand has.
C7_MaskGrows ==
    [][ /\ \A s \in Live :
              /\ styles'[s] # Absent
              /\ styles[s].set_fields \subseteq styles'[s].set_fields
        /\ \A d \in Fresh(Slots, Live) : \A x, y \in Live :
              Or(d, x, y) =>
                  /\ styles[x].set_fields \subseteq styles'[d].set_fields
                  /\ styles[y].set_fields \subseteq styles'[d].set_fields
      ]_vars

\* A Style with every property's flag set holds the default value of the
\* addressed property, and a merge result is held.
C7_Witness ==
    /\ \E s \in Live :
          /\ \A k \in Keys : HasFlag(styles[s], k)
          /\ styles[s].inner[prop] = DEFAULT[prop]
    /\ \E x, y, d \in Live :
          /\ x # d
          /\ y # d
          /\ styles[d] = Style_or(styles[x], styles[y])
          /\ styles[d] # styles[x]
          /\ styles[d] # styles[y]

(***************************************************************************)
(* Properties of styles read back from the tree.                           *)
(***************************************************************************)

\* The Styles the host may merge with a Style read from the tree: the ones
\* it holds and the ones with every property set to a non-default value.
Bases == {styles[s] : s \in Live} \cup {Style_new(kwargs).style : kwargs \in AllKwargs}

\* C8: the Style that tree.style(n) returns holds the record the tree stores
\* for n and has the flag of every one of the 50 properties set, so any base
\* merged with it as the right operand yields the tree's value of every
\* property.
C8_TreeStyleHasAllFlags ==
    [][ \A d \in Fresh(TreeSlots, Live) : \A n \in LiveNodes :
            GetStyle(d, n) =>
                /\ \A k \in Keys : HasFlag(styles'[d], k)
                /\ \A k \in Keys : styles'[d].inner[k] = nodes[n][k]
                /\ \A base \in Bases : \A k \in Keys :
                      Style_or(base, styles'[d]).inner[k] = nodes[n][k]
      ]_vars

\* A Style read from the tree is held together with the Style the node was
\* given, which has flags clear, and with a node whose stored value of the
\* addressed property is not the default.
C8_Witness ==
    \E n \in LiveNodes : \E s, d \in Live :
        /\ s # d
        /\ to_taffy(styles[s]) = nodes[n]
        /\ \E k \in Keys : ~HasFlag(styles[s], k)
        /\ styles[d] = Style_from(nodes[n])
        /\ nodes[n][prop] # DEFAULT[prop]

\* C9: the field mask of every Style the host holds, whether constructed,
\* written to, merged or read from the tree, has no bit outside positions
\* 0..49, and these 50 positions belong to one property each.
C9_MaskIsFiftyBits ==
    /\ \A k \in Keys : \E i \in 0 .. (Cardinality(Keys) - 1) : Flag(k) = Bit(i)
    /\ \A k1, k2 \in Keys : k1 # k2 => Flag(k1) # Flag(k2)
    /\ \A s \in Live :
          \A i \in styles[s].set_fields : i < Cardinality(Keys)

(***************************************************************************)
(* Properties of the value constructors.                                   *)
(***************************************************************************)

\* 0.0 <= v <= 1.0 holds of the f32 v: v is a number, and not below 0 nor
\* above 1.
InUnitInterval(v) == v.k \in {"num", "negzero"} /\ 0 <= Fin(v) /\ Fin(v) <= 100

\* C10: Percent(value) succeeds and yields the Percent of value when
\* 0.0 <= value <= 1.0; for every other value, NaN included, it fails with
\* InvalidPercent and no Percent comes into being.
C10_PercentRange ==
    [][ \A value \in F32Samples :
            PercentNew(value) =>
                IF InUnitInterval(value)
                THEN /\ outcome'.ok
                     /\ made' = made \cup {[type |-> "Percent", value |-> value]}
                ELSE /\ ~outcome'.ok
                     /\ outcome'.err = "InvalidPercent"
                     /\ made' = made
      ]_vars

\* Percent(NaN) has just failed, after Percent(0.0) and Percent(1.0) succeeded
\* and Percent of a value above 1 did not.
C10_Witness ==
    /\ outcome.call = "Percent"
    /\ outcome.arg = NaN
    /\ ~outcome.ok
    /\ [type |-> "Percent", value |-> Flt(0)] \in made
    /\ [type |-> "Percent", value |-> Flt(100)] \in made
    /\ \A p \in made : p.value # Flt(101)

\* C11: Length(NaN) fails with InvalidLength, and no Length the host holds
\* carries NaN.
C11_LengthRejectsNaN ==
    /\ (outcome.call = "Length" /\ outcome.arg = NaN) =>
          (~outcome.ok /\ outcome.err = "InvalidLength")
    /\ \A o \in made : o.type = "Length" => o.value # NaN

\* C12: GridLine(0) fails with InvalidGridLine, and every GridLine the host
\* holds has a non-zero index.
C12_GridLineRejectsZero ==
    /\ (outcome.call = "GridLine" /\ outcome.arg = 0) =>
          (~outcome.ok /\ outcome.err = "InvalidGridLine")
    /\ \A o \in made : o.type = "GridLine" => o.index # 0

\* C13: GridSpan(0) fails with InvalidGridSpan, and every GridSpan the host
\* holds has a count of at least 1.
C13_GridSpanRejectsZero ==
    /\ (outcome.call = "GridSpan" /\ outcome.arg = 0) =>
          (~outcome.ok /\ outcome.err = "InvalidGridSpan")
    /\ \A o \in made : o.type = "GridSpan" => o.count >= 1

(***************************************************************************)
(* Properties of the panic traps.                                          *)
(***************************************************************************)

Trapped == outcome.call \in {"catch_panic", "catch_node_panic"}
NamesKeyMap(payload) ==
    /\ payload.type \in {"str", "String"}
    /\ \/ Contains(payload.msg, SLOTMAP_KEY)
       \/ Contains(payload.msg, SPARSE_KEY)

\* C16: a trapped panic whose message contains "invalid SlotMap key used" or
\* "invalid SparseSecondaryMap key used" is reported as InvalidNodeId; any
\* other trapped panic is reported as an error of the library's base class,
\* not InvalidNodeId, whose message contains the message of the payload; a
\* call that panics never ends without an error.
C16_PanicTranslation ==
    (Trapped /\ outcome.arg.kind = "panic") =>
        LET payload == outcome.arg.payload
        IN  /\ ~outcome.ok
            /\ NamesKeyMap(payload) => outcome.err.kind = "InvalidNodeId"
            /\ ~NamesKeyMap(payload) =>
                  /\ outcome.err.kind # "InvalidNodeId"
                  /\ IsA(outcome.err.kind, "WaxyException")
                  /\ payload.type \in {"str", "String"} =>
                        Contains(outcome.err.msg, payload.msg)

\* A panic whose String message holds the message of the secondary map
\* between other words has been reported as InvalidNodeId.
C16_Witness ==
    /\ Trapped
    /\ outcome.arg.kind = "panic"
    /\ outcome.arg.payload.type = "String"
    /\ Len(outcome.arg.payload.msg) > Len(SPARSE_KEY)
    /\ Contains(outcome.arg.payload.msg, SPARSE_KEY)
    /\ ~Contains(outcome.arg.payload.msg, SLOTMAP_KEY)
    /\ ~outcome.ok
    /\ outcome.err.kind = "InvalidNodeId"

(***************************************************************************)
(* Properties of removed nodes.                                            *)
(***************************************************************************)

\* The NodeIds the host holds whose node has been removed from the tree.
Removed == {n \in handles : nodes[n] = Absent}

\* Every way a call that takes n as an argument can end, the other
\* arguments being NodeIds and Styles the host holds.
CallsOn(n) ==
    LET t == Tree
        indices == 0 .. MaxChildren
    IN  UNION ({ style_of(t, n), layout(t, n), unrounded_layout(t, n),
                 children_of(t, n), child_count(t, n), parent_of(t, n),
                 remove(t, n), mark_dirty(t, n), dirty(t, n),
                 get_node_context(t, n), compute_layout(t, n) }
            \cup {set_style(t, n, styles[s]) : s \in Live}
            \cup {set_node_context(t, n, c) : c \in {None, Some("a")}}
            \cup {add_child(t, n, m) : m \in handles}
            \cup {add_child(t, m, n) : m \in handles}
            \cup {set_children(t, n, cs) : cs \in ChildLists}
            \cup {set_children(t, m, <<n>>) : m \in handles}
            \cup {new_with_children(t, styles[s], <<n>>) : s \in Live}
            \cup {insert_child_at_index(t, n, i, m) : i \in indices, m \in handles}
            \cup {insert_child_at_index(t, m, i, n) : i \in indices, m \in handles}
            \cup {replace_child_at_index(t, n, i, m) : i \in indices, m \in handles}
            \cup {replace_child_at_index(t, m, i, n) : i \in indices, m \in handles}
            \cup {remove_child(t, n, m) : m \in handles}
            \cup {remove_child(t, m, n) : m \in handles}
            \cup {remove_child_at_index(t, n, i) : i \in indices}
            \cup {child_at_index(t, n, i) : i \in indices})

\* C14: for a NodeId n whose node has been removed, every tree operation
\* that takes n as an argument fails with InvalidNodeId; none returns a
\* normal result.
C14_RemovedIdFails ==
    \A n \in Removed : \A r \in CallsOn(n) :
        ~r.res.ok /\ r.res.err.kind = "InvalidNodeId"

\* What the host can observe of the tree t: the number of nodes, and the
\* parent, children, style and context of every node that is live now.
Observed(t) ==
    [count |-> total_node_count(t),
     node |-> [n \in LiveNodes |->
                 [parent |-> t.parents[n], children |-> t.children[n],
                  style |-> t.nodes[n], context |-> t.contexts[n]]]]

\* The reads of a live node the host holds succeed in the tree t.
ReadsSucceed(t) ==
    \A n \in handles \cap LiveNodes :
        \A r \in UNION {style_of(t, n), children_of(t, n), child_count(t, n),
                        parent_of(t, n), mark_dirty(t, n)} : r.res.ok

\* C15: a tree operation that fails because one of its NodeId arguments is
\* stale leaves the number of nodes and the parent, children, style and
\* context of every live node as they were, and operations on live nodes
\* succeed after it as they did before.
C15_FailedCallChangesNothing ==
    \A n \in Removed : \A r \in CallsOn(n) :
        (~r.res.ok /\ r.res.err.kind = "InvalidNodeId") =>
            /\ Observed(r.t) = Observed(Tree)
            /\ ReadsSucceed(Tree) => ReadsSucceed(r.t)

(***************************************************************************)
(* Properties of compute_layout with a measure function.                   *)
(***************************************************************************)

Measured == pass.phase = "running" /\ pass.last.node # 0
BothKnown(known) == known.width # None /\ known.height # None
HostFailed(host) ==
    \/ host.kind = "raise"
    \/ host.kind = "return" /\ host.val.type # "Size"

\* C17: an invocation of the measure adapter with both known.width and
\* known.height present returns exactly (known.width, known.height) and does
\* not invoke the host function, also after an earlier host call of the
\* pass has failed.
C17_KnownSizeReturned ==
    (Measured /\ BothKnown(pass.last.known)) =>
        /\ pass.last.ret = [width |-> pass.last.known.width[1],
                            height |-> pass.last.known.height[1]]
        /\ ~pass.last.called

\* C17, amended: an invocation with both known.width and known.height
\* present never invokes the host function; it returns exactly
\* (known.width, known.height) unless an earlier host call of the pass has
\* failed, and Size{0,0} after such a failure.
C17_KnownSizeReturnedUnlessFailed ==
    (Measured /\ BothKnown(pass.last.known)) =>
        /\ ~pass.last.called
        /\ pass.last.ret =
              IF pass.py_err = None
              THEN [width |-> pass.last.known.width[1],
                    height |-> pass.last.known.height[1]]
              ELSE ZERO

\* The adapter has returned the known size for a node with a context in a
\* pass without a failed host call.
C17_Witness ==
    /\ Measured
    /\ BothKnown(pass.last.known)
    /\ pass.py_err = None
    /\ contexts[pass.last.node] # None
    /\ ~pass.last.called
    /\ pass.last.ret # ZERO

\* C18: an invocation for a node without a context, the known size not
\* being fully present, returns Size{0,0} without invoking the host
\* function; the host function is invoked only for a node with a context
\* and is given the context of that node.
C18_NoContextNoCall ==
    Measured =>
        LET context == contexts[pass.last.node]
        IN  /\ (context = None /\ ~BothKnown(pass.last.known)) =>
                  (pass.last.ret = ZERO /\ ~pass.last.called)
            /\ pass.last.called => (context # None /\ pass.last.given = context)

\* In a pass in which the host function has been called for a node with a
\* context and has not failed, the adapter has returned Size{0,0} for a node
\* without a context whose size is not fully known.
C18_Witness ==
    /\ Measured
    /\ pass.py_err = None
    /\ pass.hosted >= 1
    /\ contexts[pass.last.node] = None
    /\ ~BothKnown(pass.last.known)
    /\ pass.last.ret = ZERO
    /\ ~pass.last.called

\* C19: once a host call of a pass has raised or returned a value that is
\* not a Size, the error is captured and that invocation returns Size{0,0};
\* from then on in the pass the host function is not invoked and the
\* captured error stays the first one.
C19_FirstErrorKept ==
    [][ (pass.phase = "running" /\ pass'.phase = "running"
            /\ pass'.measured = pass.measured + 1) =>
          /\ pass.py_err # None =>
                /\ pass'.py_err = pass.py_err
                /\ pass'.hosted = pass.hosted
                /\ ~pass'.last.called
          /\ (pass'.last.called /\ HostFailed(pass'.last.host)) =>
                /\ pass'.py_err # None
                /\ pass'.last.host.kind = "raise" =>
                      pass'.py_err = Some(pass'.last.host.err)
                /\ pass'.last.ret = ZERO
          /\ (pass.py_err = None /\ pass'.py_err # None) =>
                (pass'.last.called /\ HostFailed(pass'.last.host))
      ]_vars

\* After a failed host call, the adapter has been invoked for a node with a
\* context whose size is not fully known, and has not called the host.
C19_Witness ==
    /\ Measured
    /\ pass.py_err # None
    /\ pass.measured > pass.hosted
    /\ contexts[pass.last.node] # None
    /\ ~BothKnown(pass.last.known)
    /\ ~pass.last.called
    /\ pass.last.ret = ZERO

\* C20: compute_layout with a measure function returns the captured host
\* error whenever a host call of the pass failed, whatever the engine call
\* ended in; otherwise the translation of the engine's panic or error, if
\* any; otherwise success.
C20_HostErrorFirst ==
    pass.phase = "done" =>
        LET engine == pass.engine
        IN  /\ pass.py_err # None => pass.result = Err(pass.py_err[1])
            /\ (pass.py_err = None /\ engine.kind = "panic") =>
                  /\ ~pass.result.ok
                  /\ pass.result.err.kind =
                        IF NamesKeyMap(engine.payload) THEN "InvalidNodeId"
                        ELSE "TaffyException"
            /\ (pass.py_err = None /\ engine.kind = "err") =>
                  /\ ~pass.result.ok
                  /\ pass.result.err.kind = engine.err.variant
            /\ (pass.py_err = None /\ engine.kind = "ok") => pass.result.ok

\* A pass in which a host call failed and the engine call ended in a panic
\* has returned the host's error.
C20_Witness ==
    /\ pass.phase = "done"
    /\ pass.py_err # None
    /\ pass.engine.kind = "panic"
    /\ ~pass.result.ok
    /\ pass.result.err = pass.py_err[1]

\* C21: while compute_layout runs with a measure function, and so while a
\* host measure call is in flight, no operation on the tree takes effect:
\* the nodes, their styles, children, parents and contexts, and the NodeIds
\* handed out stay as they are.
C21_NoMutationDuringPass ==
    [][ pass.phase = "running" => (nodes' = nodes /\ treeVars' = treeVars) ]_vars

\* A call on the tree has been refused in a pass in which the host function
\* has been called.
C21_Witness ==
    /\ pass.phase = "running"
    /\ pass.hosted >= 1
    /\ pass.refused

\* C22: reading a track back from the engine yields a shorthand for exactly
\* the canonical pairs: (Length v, Length v) gives Length(v), (Percent v,
\* Percent v) gives Percent(v), (Auto, Auto), (MinContent, MinContent) and
\* (MaxContent, MaxContent) give the keyword, (Auto, Fraction v) gives
\* Fraction(v), and (Auto, FitContent-px v) and (Auto, FitContent-percent v)
\* give FitContent(Length(v)) and FitContent(Percent(v)); every other pair,
\* (Length v, Length w) with v and w different included, gives Minmax(min, max)
\* with the two sides as the engine holds them.
C22_ShorthandExactly ==
    outcome.call = "to_py" =>
        LET lo == outcome.tsf.min
            hi == outcome.tsf.max
            py == outcome.py
        IN  CASE lo.tag = "Length" /\ hi.tag = "Length" /\ lo.value = hi.value ->
                    py = [type |-> "Length", value |-> lo.value]
              [] lo.tag = "Percent" /\ hi.tag = "Percent" /\ lo.value = hi.value ->
                    py = [type |-> "Percent", value |-> lo.value]
              [] lo.tag \in {"Auto", "MinContent", "MaxContent"} /\ hi.tag = lo.tag ->
                    py = [type |-> lo.tag]
              [] lo.tag = "Auto" /\ hi.tag = "Fraction" ->
                    py = [type |-> "Fraction", value |-> hi.value]
              [] lo.tag = "Auto" /\ hi.tag = "FitContentPx" ->
                    py = [type |-> "FitContent",
                          limit |-> [type |-> "Length", value |-> hi.value]]
              [] lo.tag = "Auto" /\ hi.tag = "FitContentPercent" ->
                    py = [type |-> "FitContent",
                          limit |-> [type |-> "Percent", value |-> hi.value]]
              [] OTHER ->
                    /\ py.type = "Minmax"
                    /\ to_taffy_min(py.min) = lo
                    /\ to_taffy_max(py.max) = hi

\* A pair of two lengths that differ has been read back as a Minmax, and so
\* has a pair of the two zeros.
C22_Witness ==
    /\ outcome.call = "to_py"
    /\ outcome.tsf.min.tag = "Length"
    /\ outcome.tsf.max.tag = "Length"
    /\ outcome.tsf.min.value # outcome.tsf.max.value
    /\ outcome.py.type = "Minmax"

\* C23 as stated: every grid track the host can construct, Minmax(m, m) and
\* Minmax(Auto, Fraction(v)) included, reads back equal to itself after its
\* conversion to the engine.
C23_RoundTrip ==
    outcome.call = "to_py" => outcome.py = outcome.arg

\* C23, amended: a grid track that is not a Minmax reads back equal to itself,
\* and so does a Minmax whose pair is no canonical pair; a Minmax that spells
\* a canonical pair reads back as the shorthand of that pair, a different
\* value that converts to the same engine pair.
C23_RoundTripUpToShorthand ==
    outcome.call = "to_py" =>
        LET x == outcome.arg
            py == outcome.py
        IN  /\ x.type # "Minmax" => py = x
            /\ py.type = "Minmax" => py = x
            /\ GridTrackInput_to_taffy(py) = GridTrackInput_to_taffy(x)
            /\ py # x =>
                  \/ x.min = x.max
                  \/ x.min.type = "Auto" /\ x.max.type \in {"Fraction", "FitContent"}

\* Minmax(m, m) over a length m has been read back as the length.
C23_Witness ==
    /\ outcome.call = "to_py"
    /\ outcome.arg.type = "Minmax"
    /\ outcome.arg.min = outcome.arg.max
    /\ outcome.py = outcome.arg.min
    /\ outcome.py.type = "Length"

\* C24: for a property of the alignment family or aspect_ratio, None passed
\* to the constructor or to the setter stores the absent state and sets the
\* property's flag; so base | overlay with such an overlay is absent in that
\* property whatever base holds, while an overlay that never mentioned the
\* property, the empty Style or one that mentions every other property, keeps
\* base's value.
C24_ExplicitUnset ==
    IsOpt(prop) =>
        LET unset == Style_new([k \in {prop} |-> PyNone])
        IN  /\ unset.ok
            /\ unset.style.inner[prop] = None
            /\ HasFlag(unset.style, prop)
            /\ \A x \in Live :
                  LET written == Style_set(styles[x], prop, None)
                  IN  /\ written.inner[prop] = None
                      /\ HasFlag(written, prop)
                      /\ Style_or(styles[x], unset.style).inner[prop] = None
                      /\ Style_or(styles[x], Style_new(NoKwargs).style).inner[prop]
                            = styles[x].inner[prop]
                      /\ Style_or(styles[x], Style_new(RestKwargs).style).inner[prop]
                            = styles[x].inner[prop]

\* A base with a concrete value has been merged with an overlay that unset
\* the property, and the result holds the absent state.
C24_Witness ==
    /\ IsOpt(prop)
    /\ \E x, y, d \in Live :
          /\ styles[x].inner[prop] # None
          /\ styles[y].inner[prop] = None
          /\ HasFlag(styles[y], prop)
          /\ styles[d] = Style_or(styles[x], styles[y])
          /\ styles[d].inner[prop] = None

\* C25: styles are copied at the tree boundary.  A step that writes a Style
\* of the host, one passed to new_leaf or set_style before or one returned by
\* tree.style(n), leaves the style the tree stores for every node as it was;
\* and a step that changes the style stored for a node, set_style or new_leaf,
\* leaves every Style of the host as it was, the snapshots included.
C25_CopiedAtBoundary ==
    [][ /\ styles' # styles => nodes' = nodes
        /\ nodes' # nodes => styles' = styles ]_vars

\* A snapshot read from the tree and the style stored for the node differ:
\* one of the two has been written since the read.
C25_Witness ==
    \E n \in LiveNodes : \E s \in Live :
        /\ styles[s].set_fields = U64_MAX
        /\ to_taffy(styles[s]) # nodes[n]

\* C26: when the constructor is given, for the addressed property, a value
\* outside the property's accept-set, an object of another type or None where
\* the property does not admit it, the call fails with TypeError and the
\* error identifies the property: its message holds the property's keyword.
C26_ErrorNamesProperty ==
    outcome.call = "Style" =>
        /\ ~outcome.ok
        /\ outcome.err = "TypeError"
        /\ Contains(outcome.msg, <<prop>>)

\* C29: a setter write that fails because the value is outside the accept-set
\* of the property leaves every Style as it was: every value and every flag,
\* the flag of the addressed property included.
C29_FailedWriteChangesNothing ==
    [][ outcome'.call = "setattr" => styles' = styles ]_vars

\* A write has failed, and a Style the host holds still has the flag of the
\* addressed property clear.
C29_Witness ==
    /\ outcome.call = "setattr"
    /\ ~outcome.ok
    /\ \E s \in Live : ~HasFlag(styles[s], prop)

\* C27: every percentage that a construction path open to the host hands to
\* the engine lies in [0.0, 1.0]; so every percentage a Dimension made by
\* Dimension.percent holds, which is the engine's own value and is what a
\* Style stores and reads back, lies in that range.
C27_StoredPercentInRange ==
    \A o \in made :
        (o.type = "Dimension" /\ o.inner.tag = "Percent") =>
            RangeContains(Flt(0), Flt(100), o.inner.value)

\* C28: merging with an overlay that has no flag set is the identity on the
\* base: for every Style a, a | Style() has a's value in every property and
\* a's mask.
C28_EmptyOverlayIsIdentity ==
    \A x \in Live :
        Style_or(styles[x], Style_new(NoKwargs).style) = styles[x]

\* A base with a flag set has been merged with the empty Style, and the
\* result equals the base.
C28_Witness ==
    \E x, y, d \in Live :
        /\ d # x
        /\ styles[x].set_fields # Zero
        /\ styles[x].inner # DEFAULT
        /\ styles[y] = Style_new(NoKwargs).style
        /\ styles[d] = Style_or(styles[x], styles[y])
        /\ styles[d] = styles[x]

\* C30: total_node_count equals the number of nodes created and not yet
\* removed or cleared, that is, of the NodeIds the tree has returned whose
\* node is still there; and a call that fails on a stale id leaves it as it
\* was.
C30_CountIsCreatedLessRemoved ==
    /\ total_node_count(Tree) = Cardinality(handles \ Removed)
    /\ \A n \in Removed : \A s \in Live :
          \A r \in UNION {remove(Tree, n), set_style(Tree, n, styles[s]),
                          new_with_children(Tree, styles[s], <<n>>)} :
             ~r.res.ok => total_node_count(r.t) = total_node_count(Tree)

====
